---------------------------- MODULE Spec2Model ----------------------------
(***************************************************************************)
(* A model of the CPU ray tracer of src/lab4/2023080909014_WuXi_lab4.cpp   *)
(* (Cornell box, three spheres, one wooden box, five bounded planes).      *)
(*                                                                         *)
(* Numbers.  The program computes in IEEE single precision.  The model     *)
(* computes in fixed point: the integer n stands for the real n / S with   *)
(* S = 1000, so that the program's guard distance 0.001 is the integer 1   *)
(* and every literal of the scene (0.85, 1.5, ...) is exact.  Products and *)
(* quotients are rounded to the nearest representable value, as the        *)
(* floating-point operations are.  An IEEE infinity is the integer Inf,    *)
(* larger than every finite value of the model, and the IEEE NaN is the    *)
(* integer NaN, which every ordered comparison (lt, gt, le, ge) answers    *)
(* FALSE for, as the hardware does.                                        *)
(***************************************************************************)
EXTENDS Integers, Sequences, FiniteSets, TLC

\* --------------------------------------------------------------- numbers

\* The fixed-point scale: the integer S stands for 1.0f.
S == 10 ^ 3

\* 0.001f, the guard distance used by every intersection test.
EPS == S \div 1000

\* IEEE +infinity; -Inf is -infinity.
Inf == 2 * 10 ^ 9

\* IEEE NaN (an integer no computation of the model produces otherwise).
NaN == 2 * 10 ^ 9 + 7

IsNaN(a) == a = NaN

IsInf(a) == a = Inf \/ a = -Inf

\* The ordered comparisons of float: FALSE as soon as one side is NaN.
lt(a, b) == a # NaN /\ b # NaN /\ a < b

gt(a, b) == a # NaN /\ b # NaN /\ a > b

le(a, b) == a # NaN /\ b # NaN /\ a <= b

ge(a, b) == a # NaN /\ b # NaN /\ a >= b

Abs(a) == IF a < 0 THEN -a ELSE a

Sgn(a) == IF a < 0 THEN -1 ELSE IF a > 0 THEN 1 ELSE 0

\* std::min(a, b) is (b < a) ? b : a and std::max(a, b) is (a < b) ? b : a, so a
\* NaN comes back only as the first argument.
Min2(a, b) == IF lt(b, a) THEN b ELSE a

Max2(a, b) == IF lt(a, b) THEN b ELSE a

\* n / d rounded to the nearest integer, halves away from zero (d # 0).
RoundDiv(n, d) == Sgn(n) * Sgn(d) * ((2 * Abs(n) + Abs(d)) \div (2 * Abs(d)))

\* float * float.  The larger factor is split so that the intermediate
\* product stays inside the 32-bit integers of the model checker.
FMulAbs(lo, hi) == lo * (hi \div S) + RoundDiv(lo * (hi % S), S)

FMul(a, b) == Sgn(a) * Sgn(b) * FMulAbs(Min2(Abs(a), Abs(b)), Max2(Abs(a), Abs(b)))

\* float / float with finite operands: x/0 is +-infinity, 0/0 is NaN.
FDiv(a, b) ==
    IF b = 0 THEN (IF a = 0 THEN NaN ELSE Sgn(a) * Inf)
    ELSE RoundDiv(a * S, b)

\* Slab product (lo - origin) * (1 / direction) of Box::intersect, where the
\* reciprocal may be an infinity: 0 * infinity is NaN.
MulInv(a, d) ==
    IF d = 0 THEN (IF a = 0 THEN NaN ELSE Sgn(a) * Inf)
    ELSE RoundDiv(a * S, d)

RECURSIVE SqrtIter(_, _)
SqrtIter(n, x) ==
    LET y == (x + n \div x) \div 2
    IN  IF y >= x THEN x ELSE SqrtIter(n, y)

\* The integer square root, rounded down.
ISqrt(n) == IF n <= 0 THEN 0 ELSE SqrtIter(n, Min2(n, 46340))

\* r, the integer square root of n, corrected to the nearest integer.
SqrtNearest(n, r) == IF n - r * r > r THEN r + 1 ELSE r

\* The integer square root, rounded to nearest.
SqrtRound(n) == SqrtNearest(n, ISqrt(n))

\* std::sqrt on a float (the argument is non-negative where the code calls it).
FSqrt(x) == SqrtRound(x * S)

Sq(x) == FMul(x, x)

RECURSIVE FPow(_, _)
\* std::pow(x, n) for an integer exponent n >= 0, by repeated multiplication.
FPow(x, n) ==
    IF n = 0 THEN S
    ELSE IF n % 2 = 1 THEN FMul(x, FPow(x, n - 1))
    ELSE Sq(FPow(x, n \div 2))

\* pi and the sine of std::sin, by Bhaskara's rational approximation on
\* [0, pi] after reduction of the argument modulo 2*pi (error below 0.002).
PI == 3142

SinHalf(x) ==
    LET q == x * (PI - x)
    IN  RoundDiv(16 * q, RoundDiv(5 * PI * PI - 4 * q, S))

Sin(x) ==
    LET r == x % (2 * PI)
    IN  IF r <= PI THEN SinHalf(r) ELSE -SinHalf(r - PI)

Cos(x) == Sin(x + PI \div 2)

\* std::tan.
Tan(x) == FDiv(Sin(x), Cos(x))

\* std::floor of a float, as an integer.
Floor(x) == x \div S

\* static_cast<int> of a float: truncation toward zero.
Trunc(x) == Sgn(x) * (Abs(x) \div S)

\* The C++ remainder a % b of ints (sign of the dividend), b > 0.
CRem(a, b) == Sgn(a) * (Abs(a) % b)


\* --------------------------------------------------------------- Vector3

\* Vector3 is a triple <<x, y, z>> of floats.
Vec(x, y, z) == <<x, y, z>>

Zero3 == <<0, 0, 0>>

NaN3 == <<NaN, NaN, NaN>>

\* operator+
add(a, b) == <<a[1] + b[1], a[2] + b[2], a[3] + b[3]>>

\* operator-
sub(a, b) == <<a[1] - b[1], a[2] - b[2], a[3] - b[3]>>

\* operator*(float)
scale(v, s) == <<FMul(v[1], s), FMul(v[2], s), FMul(v[3], s)>>

\* operator*(const Vector3&), the component-wise product
hadamard(a, b) == <<FMul(a[1], b[1]), FMul(a[2], b[2]), FMul(a[3], b[3])>>

dot(a, b) == RoundDiv(a[1] * b[1] + a[2] * b[2] + a[3] * b[3], S)

cross(a, b) ==
    << RoundDiv(a[2] * b[3] - a[3] * b[2], S),
       RoundDiv(a[3] * b[1] - a[1] * b[3], S),
       RoundDiv(a[1] * b[2] - a[2] * b[1], S) >>

length(v) == SqrtRound(v[1] * v[1] + v[2] * v[2] + v[3] * v[3])

\* v divided by its length len.  x * (1.0f / len) is evaluated as x / len
\* (the reciprocal is not rounded on its own).
divideByLength(v, len) ==
    IF len > 0
    THEN <<RoundDiv(v[1] * S, len), RoundDiv(v[2] * S, len), RoundDiv(v[3] * S, len)>>
    ELSE v

\* normalize(): the zero vector is returned as it is.
normalize(v) == divideByLength(v, length(v))

\* A float vector outside the fixed-point range: the vector m * 10^e for a
\* triple m of one-digit integers.  A float square x * x is 0 when it lies
\* below half the smallest positive float (about 0.7e-45) and +infinity when
\* it lies above the largest (about 3.4e38); every other square is taken as
\* exact, the loss of precision among the subnormal floats left aside.
Scaled(m, e) == [m |-> m, e |-> e]

\* x * x is 0 for the component a * 10^e.
SquareIsZero(a, e) == a = 0 \/ e <= -24 \/ (e = -23 /\ a * a < 7)

\* x*x + y*y + z*z is 0: every square is.
SquaresVanish(v) == \A i \in 1..3 : SquareIsZero(v.m[i], v.e)

\* x*x + y*y + z*z is +infinity.
SquaresOverflow(v) ==
    \/ v.e >= 20
    \/ v.e = 19 /\ 10 * (v.m[1] * v.m[1] + v.m[2] * v.m[2] + v.m[3] * v.m[3]) > 34

\* normalize() on such a vector: unchanged when len is 0, multiplied by
\* 1.0f / infinity = 0 when len is infinite, and the unit vector otherwise
\* (a fixed-point vector, m * 10^-3).
normalizeScaled(v) ==
    IF SquaresVanish(v) THEN v
    ELSE IF SquaresOverflow(v) THEN Scaled(Zero3, 0)
    ELSE Scaled(normalize(<<v.m[1] * S, v.m[2] * S, v.m[3] * S>>), -3)

\* The direction Ray(o, d) stores for such a vector d.
RayDirectionScaled(d) == normalizeScaled(d)
\* Ray(o, d): the direction is normalized by the constructor.
Ray(o, d) == [origin |-> o, direction |-> normalize(d)]

\* The point origin + direction * t of a ray.
PointAt(ray, t) == add(ray.origin, scale(ray.direction, t))

\* --------------------------------------------------------------- Material

\* A default-constructed Material (the member initializers of the struct).
DefaultMaterial ==
    [ color |-> Zero3, ka |-> 100, kd |-> 800, ks |-> 200, kr |-> 0,
      shininess |-> 32, eta |-> S, roughness |-> 0,
      isRefractive |-> FALSE, isMetallic |-> FALSE ]

\* --------------------------------------------------------------- Sphere

Sphere(c, r, m) == [center |-> c, radius |-> r, mat |-> m]

\* The two roots of the quadratic of Sphere::intersect for the coefficients
\* a, b and the discriminant.
SphereRoots(a, b, discriminant) ==
    [ a |-> a, discriminant |-> discriminant,
      near |-> FDiv(-b - FSqrt(Max2(discriminant, 0)), 2 * a),
      far  |-> FDiv(-b + FSqrt(Max2(discriminant, 0)), 2 * a) ]

\* The discriminant of the quadratic of Sphere::intersect and its roots.
SphereSolve(a, b, c) == SphereRoots(a, b, FMul(b, b) - 4 * FMul(a, c))

\* The quadratic of Sphere::intersect: its coefficients, from oc and the ray.
SphereQuadratic(sphere, ray) ==
    SphereSolve(dot(ray.direction, ray.direction),
                2 * dot(sub(ray.origin, sphere.center), ray.direction),
                dot(sub(ray.origin, sphere.center), sub(ray.origin, sphere.center))
                    - FMul(sphere.radius, sphere.radius))

\* A mutation of the root selection: the far root is never tried.
SphereNearOnly(q) ==
    IF q.discriminant < 0 THEN [hit |-> FALSE, t |-> 0]
    ELSE [hit |-> gt(q.near, EPS), t |-> q.near]

\* The root Sphere::intersect selects: [hit, t].  t is left as it was
\* assigned last.
SphereSelect(q) ==
    IF q.discriminant < 0 THEN [hit |-> FALSE, t |-> 0]
    ELSE IF gt(q.near, EPS) THEN [hit |-> TRUE, t |-> q.near]
    ELSE [hit |-> gt(q.far, EPS), t |-> q.far]

\* Sphere::intersect(ray, t): [hit, t].
SphereIntersect(sphere, ray) == SphereSelect(SphereQuadratic(sphere, ray))

\* --------------------------------------------------------------- Box

Box(mn, mx, m) == [min |-> mn, max |-> mx, mat |-> m]

\* The std::swap of one slab: the two distances in increasing order.
SlabOrder(t0, t1) == IF gt(t0, t1) THEN <<t1, t0>> ELSE <<t0, t1>>

\* One slab of Box::intersect: the entry and exit distances on one axis,
\* swapped into order when the comparison says so.
Slab(lo, hi, o, d) == SlabOrder(MulInv(lo - o, d), MulInv(hi - o, d))

\* The face test of Box::intersect: the first face the hit point lies within
\* eps of, with the sign test the code makes on the ray direction.
BoxFaceNormal(box, ray, hitPoint) ==
    LET eps == EPS
        d == ray.direction
    IN  IF Abs(hitPoint[1] - box.min[1]) < eps /\ d[1] < 0 THEN Vec(-S, 0, 0)
        ELSE IF Abs(hitPoint[1] - box.max[1]) < eps /\ d[1] > 0 THEN Vec(S, 0, 0)
        ELSE IF Abs(hitPoint[2] - box.min[2]) < eps /\ d[2] < 0 THEN Vec(0, -S, 0)
        ELSE IF Abs(hitPoint[2] - box.max[2]) < eps /\ d[2] > 0 THEN Vec(0, S, 0)
        ELSE IF Abs(hitPoint[3] - box.min[3]) < eps /\ d[3] < 0 THEN Vec(0, 0, -S)
        ELSE IF Abs(hitPoint[3] - box.max[3]) < eps /\ d[3] > 0 THEN Vec(0, 0, S)
        ELSE Zero3

\* The fallback of Box::intersect: when no face test succeeded (normal is the
\* zero vector), the direction from the box centre to the hit point.
BoxFallback(box, hitPoint, normal) ==
    IF length(normal) = 0
    THEN normalize(sub(hitPoint, scale(add(box.min, box.max), S \div 2)))
    ELSE normal

\* The normal Box::intersect stores.
BoxNormal(box, ray, hitPoint) ==
    BoxFallback(box, hitPoint, BoxFaceNormal(box, ray, hitPoint))

BoxMiss == [hit |-> FALSE, t |-> 0, normal |-> Zero3, fallback |-> FALSE]

\* A mutation of the range test: the distance is tested by its magnitude, so
\* that an entry point behind the origin is taken too.
BoxHitAtEitherSide(box, ray, t) ==
    IF lt(Abs(t), EPS) \/ gt(Abs(t), 1000 * S) THEN BoxMiss
    ELSE IF IsNaN(t)
    THEN [hit |-> TRUE, t |-> NaN, normal |-> NaN3, fallback |-> TRUE]
    ELSE [ hit |-> TRUE, t |-> t,
           normal |-> BoxNormal(box, ray, PointAt(ray, t)),
           fallback |-> length(BoxFaceNormal(box, ray, PointAt(ray, t))) = 0 ]

\* The end of Box::intersect for the entry distance t: the range test, the
\* hit point and the normal.
BoxHitAt(box, ray, t) ==
    IF lt(t, EPS) \/ gt(t, 1000 * S) THEN BoxMiss
    ELSE IF IsNaN(t)
    THEN [hit |-> TRUE, t |-> NaN, normal |-> NaN3, fallback |-> TRUE]
    ELSE [ hit |-> TRUE, t |-> t,
           normal |-> BoxNormal(box, ray, PointAt(ray, t)),
           fallback |-> length(BoxFaceNormal(box, ray, PointAt(ray, t))) = 0 ]

\* The slab test of Box::intersect on the three slabs sx, sy, sz.
BoxSlabs(box, ray, sx, sy, sz) ==
    IF gt(sx[1], sy[2]) \/ gt(sy[1], sx[2]) THEN BoxMiss
    ELSE
    LET tMin1 == IF gt(sy[1], sx[1]) THEN sy[1] ELSE sx[1]
        tMax1 == IF lt(sy[2], sx[2]) THEN sy[2] ELSE sx[2]
    IN  IF gt(tMin1, sz[2]) \/ gt(sz[1], tMax1) THEN BoxMiss
        ELSE BoxHitAt(box, ray, IF gt(sz[1], tMin1) THEN sz[1] ELSE tMin1)

\* Box::intersect(ray, t, normal): [hit, t, normal, fallback]; fallback tells
\* that the normal is the centre-to-hit-point direction.
BoxIntersect(box, ray) ==
    BoxSlabs(box, ray,
             Slab(box.min[1], box.max[1], ray.origin[1], ray.direction[1]),
             Slab(box.min[2], box.max[2], ray.origin[2], ray.direction[2]),
             Slab(box.min[3], box.max[3], ray.origin[3], ray.direction[3]))


\* --------------------------------------------------------------- noise

\* Linear interpolation of two floats.
interpolate(a, b, t) == FMul(S - t, a) + FMul(t, b)

\* Linear interpolation of two colours.
interpolateV(a, b, t) == add(scale(a, S - t), scale(b, t))

\* The quintic ease curve.
fade(t) == FMul(FMul(FMul(t, t), t), FMul(t, FMul(t, 6 * S) - 15 * S) + 10 * S)

\* A mutation of the gradient selector: the low three bits of hash pick the
\* direction.
gradLowThree(hash, x, y) ==
    LET h == hash % 8
    IN  CASE h = 0 -> x + y
          [] h = 1 -> -x + y
          [] h = 2 -> x - y
          [] h = 3 -> -x - y
          [] h = 4 -> x
          [] h = 5 -> -x
          [] h = 6 -> y
          [] OTHER -> -y

\* The gradient selector: the low four bits of hash pick one of 8 directions.
grad(hash, x, y) ==
    LET h == hash % 16
    IN  CASE h = 0 -> x + y
          [] h = 1 -> -x + y
          [] h = 2 -> x - y
          [] h = 3 -> -x - y
          [] h = 4 -> x
          [] h = 5 -> -x
          [] h = 6 -> y
          [] h = 7 -> -y
          [] OTHER -> 0

\* The length of the shuffled part of the permutation table p.
TableSize == 256

\* The blend of the four corner gradients of the cell: A and B are the hashes
\* of its two columns, (x, y) the position inside it, u and v the eased x, y.
PerlinBlend(perm, A, B, x, y, u, v) ==
    interpolate(
        interpolate(grad(perm[A], x, y), grad(perm[B], x - S, y), u),
        interpolate(grad(perm[A + 1], x, y - S), grad(perm[B + 1], x - S, y - S), u),
        v)

\* The noise of the cell (X, Y) at the position (x, y) inside it.
PerlinCell(perm, X, Y, x, y) ==
    PerlinBlend(perm, perm[X] + Y, perm[X + 1] + Y, x, y, fade(x), fade(y))

\* (int)std::floor(c) & 255: the low eight bits of the two's complement, so a
\* negative coordinate gives an index in 0..255 as well.
CellIndex(c) == Floor(c) % TableSize

\* perlinNoise(x, y) over the permutation table perm (the global p).
perlinNoise(perm, x0, y0) ==
    PerlinCell(perm, CellIndex(x0), CellIndex(y0),
               x0 - Floor(x0) * S, y0 - Floor(y0) * S)

\* The indices perlinNoise reads p at in the cell (X, Y): X and X + 1, then A,
\* B, A + 1 and B + 1.  An index outside the table reads no element of it,
\* and A and B are then taken from the index itself.
PerlinReads(perm, X, Y, X1) ==
    << X, X1,
       (IF X \in DOMAIN perm THEN perm[X] ELSE X) + Y,
       (IF X1 \in DOMAIN perm THEN perm[X1] ELSE X1) + Y,
       (IF X \in DOMAIN perm THEN perm[X] ELSE X) + Y + 1,
       (IF X1 \in DOMAIN perm THEN perm[X1] ELSE X1) + Y + 1 >>

\* The stripe coordinate of the wood grain: along z on a top or bottom face,
\* along y on a side face.
WoodStripeCoord(hitPoint, normal) ==
    IF Abs(normal[2]) > 900 THEN FMul(hitPoint[3], 10 * S) ELSE FMul(hitPoint[2], 10 * S)

\* hitPoint.c * scale * 0.5f, a noise coordinate of the wood grain.
WoodCoord(c) == FMul(FMul(c, 10 * S), S \div 2)

\* The hash perlinNoise reads, in the cell (X, Y), for the corner of that cell
\* that lies dx to the right and dy up: p[A], p[B], p[A + 1] or p[B + 1].
CornerHash(perm, X, Y, dx, dy) == perm[perm[X + dx] + Y + dy]
\* The noise value of the wood grain, on the plane the face projects to.
WoodNoise(perm, hitPoint, normal) ==
    IF Abs(normal[2]) > 900
    THEN perlinNoise(perm, WoodCoord(hitPoint[1]), WoodCoord(hitPoint[3]))
    ELSE IF Abs(normal[1]) > 900
    THEN perlinNoise(perm, WoodCoord(hitPoint[2]), WoodCoord(hitPoint[3]))
    ELSE perlinNoise(perm, WoodCoord(hitPoint[1]), WoodCoord(hitPoint[2]))

\* The argument of the sine: stripeCoord * 2 * pi / stripeDensity plus the
\* noise term (stripeDensity and noiseStrength are both 0.3f).
WoodPhase(stripeCoord, noiseVal) ==
    FDiv(FMul(FMul(stripeCoord, 2 * S), PI), 300) + FMul(FMul(noiseVal, 300), 10 * S)

\* The stripe pattern before it is squared: the sine brought to [0, 1] and
\* folded about 0.5.
WoodStripe(phase) == FMul(Abs(FMul(Sin(phase) + S, S \div 2) - S \div 2), 2 * S)

\* Scene::getWoodTextureColor(hitPoint, normal).
getWoodTextureColor(perm, hitPoint, normal) ==
    interpolateV(Vec(650, 450, 250), Vec(450, 250, 100),
                 Sq(WoodStripe(WoodPhase(WoodStripeCoord(hitPoint, normal),
                                         WoodNoise(perm, hitPoint, normal)))))

\* --------------------------------------------------------------- planes

\* The result of Scene::planeIntersect for the distance t it computed.
PlaneResult(t) == [hit |-> t > EPS, t |-> t]

\* A mutation of planeIntersect: the test of the denominator against 0.001
\* is missing.
planeIntersectUnguarded(ray, point, normal) ==
    PlaneResult(FDiv(dot(sub(point, ray.origin), normal), dot(normal, ray.direction)))
\* Scene::planeIntersect(ray, t, point, normal): [hit, t].
planeIntersect(ray, point, normal) ==
    IF Abs(dot(normal, ray.direction)) > EPS
    THEN PlaneResult(FDiv(dot(sub(point, ray.origin), normal), dot(normal, ray.direction)))
    ELSE [hit |-> FALSE, t |-> 0]

\* The five bounded planes of Scene::trace, in the order the code tests them:
\* a point and a normal, and the rectangle the hit point must lie in (the
\* two axes a, b that are tested and their bounds).
Planes ==
    << [ name |-> "floor",   point |-> Vec(0, 0, 0),     normal |-> Vec(0, S, 0),
         a |-> 1, alo |-> -1500, ahi |-> 1500, b |-> 3, blo |-> -1500, bhi |-> 1500 ],
       [ name |-> "left",    point |-> Vec(-1500, 0, 0), normal |-> Vec(S, 0, 0),
         a |-> 2, alo |-> 0, ahi |-> 3000, b |-> 3, blo |-> -1500, bhi |-> 1500 ],
       [ name |-> "right",   point |-> Vec(1500, 0, 0),  normal |-> Vec(-S, 0, 0),
         a |-> 2, alo |-> 0, ahi |-> 3000, b |-> 3, blo |-> -1500, bhi |-> 1500 ],
       [ name |-> "back",    point |-> Vec(0, 0, -1500), normal |-> Vec(0, 0, S),
         a |-> 1, alo |-> -1500, ahi |-> 1500, b |-> 2, blo |-> 0, bhi |-> 3000 ],
       [ name |-> "ceiling", point |-> Vec(0, 3000, 0),  normal |-> Vec(0, -S, 0),
         a |-> 1, alo |-> -1500, ahi |-> 1500, b |-> 3, blo |-> -1500, bhi |-> 1500 ] >>

\* The rectangular bound check of a plane block.
InsideRect(pl, pt) ==
    /\ pt[pl.a] >= pl.alo /\ pt[pl.a] <= pl.ahi
    /\ pt[pl.b] >= pl.blo /\ pt[pl.b] <= pl.bhi

\* The base colour of the floor: the stripe along z picks one of two browns.
FloorBase(pt) ==
    IF CRem(Trunc(FMul(FMul(pt[3], 8 * S), 5 * S)), 2) # 0
    THEN Vec(550, 350, 150) ELSE Vec(450, 250, 100)

\* The colour the floor block derives at the point pt: the base colour
\* modulated by the wave along x.
FloorColor(pt) ==
    scale(FloorBase(pt), 800 + FMul(FMul(Sin(FMul(pt[1], 15 * S)), S \div 2) + S \div 2, 200))

\* The assignments a plane block makes to hitMat: the fields it does not
\* assign keep the value hitMat had before the block.
PlaneMaterial(pl, pt, hitMat) ==
    IF pl.name = "floor"
    THEN [hitMat EXCEPT !.color = FloorColor(pt),
                        !.ka = 150, !.kd = 750, !.ks = 150,
                        !.kr = 0, !.shininess = 20,
                        !.isMetallic = FALSE, !.roughness = 0]
    ELSE [hitMat EXCEPT !.color = CASE pl.name = "left"  -> Vec(750, 100, 100)
                                    [] pl.name = "right" -> Vec(100, 750, 100)
                                    [] OTHER             -> Vec(850, 850, 850),
                        !.ka = 100, !.kd = 800, !.ks = 50, !.kr = 0,
                        !.isMetallic = FALSE, !.roughness = 0]

\* --------------------------------------------------------------- nearest hit

\* The hit record of Scene::trace before any primitive is tested.  prim names
\* the primitive that assigned the record last (a ghost of the model).
NoHit ==
    [ tMin |-> 100000 * S, hitMat |-> DefaultMaterial,
      hitPoint |-> Zero3, hitNormal |-> Zero3,
      hasHit |-> FALSE, isBox |-> FALSE, prim |-> <<"none", 0>> ]

\* A mutation of the body of the sphere loop: a sphere replaces the hit when
\* its distance is not larger, so of two equal distances the later one wins.
SphereUpdateOrEqual(h, sphere, i, ray, r) ==
    IF r.hit /\ le(r.t, h.tMin)
    THEN [ tMin |-> r.t, hitMat |-> sphere.mat, hitPoint |-> PointAt(ray, r.t),
           hitNormal |-> normalize(sub(PointAt(ray, r.t), sphere.center)),
           hasHit |-> TRUE, isBox |-> FALSE, prim |-> <<"sphere", i>> ]
    ELSE h
\* The body of the sphere loop for the result r of the intersection test.
SphereUpdate(h, sphere, i, ray, r) ==
    IF r.hit /\ lt(r.t, h.tMin)
    THEN [ tMin |-> r.t, hitMat |-> sphere.mat, hitPoint |-> PointAt(ray, r.t),
           hitNormal |-> normalize(sub(PointAt(ray, r.t), sphere.center)),
           hasHit |-> TRUE, isBox |-> FALSE, prim |-> <<"sphere", i>> ]
    ELSE h

\* One iteration of the sphere loop.
SphereStep(h, sphere, i, ray) ==
    SphereUpdate(h, sphere, i, ray, SphereIntersect(sphere, ray))

\* The body of the box loop for the result r of the intersection test.
BoxUpdate(h, box, j, ray, r) ==
    IF r.hit /\ lt(r.t, h.tMin)
    THEN [ tMin |-> r.t, hitMat |-> box.mat, hitPoint |-> PointAt(ray, r.t),
           hitNormal |-> r.normal,
           hasHit |-> TRUE, isBox |-> TRUE, prim |-> <<"box", j>> ]
    ELSE h

\* One iteration of the box loop.
BoxStep(h, box, j, ray) == BoxUpdate(h, box, j, ray, BoxIntersect(box, ray))

\* A mutation of the body of a plane block: the block leaves isBox as it is.
PlaneUpdateKeepFlag(h, pl, ray, r) ==
    IF r.hit /\ r.t < h.tMin /\ InsideRect(pl, PointAt(ray, r.t))
    THEN [ tMin |-> r.t, hitMat |-> PlaneMaterial(pl, PointAt(ray, r.t), h.hitMat),
           hitPoint |-> PointAt(ray, r.t), hitNormal |-> pl.normal,
           hasHit |-> TRUE, isBox |-> h.isBox, prim |-> <<pl.name, 0>> ]
    ELSE h
\* The body of a plane block for the result r of planeIntersect.
PlaneUpdate(h, pl, ray, r) ==
    IF r.hit /\ r.t < h.tMin /\ InsideRect(pl, PointAt(ray, r.t))
    THEN [ tMin |-> r.t, hitMat |-> PlaneMaterial(pl, PointAt(ray, r.t), h.hitMat),
           hitPoint |-> PointAt(ray, r.t), hitNormal |-> pl.normal,
           hasHit |-> TRUE, isBox |-> FALSE, prim |-> <<pl.name, 0>> ]
    ELSE h

\* One plane block.
PlaneStep(h, pl, ray) == PlaneUpdate(h, pl, ray, planeIntersect(ray, pl.point, pl.normal))

RECURSIVE SphereLoop(_, _, _, _)
SphereLoop(h, spheres, i, ray) ==
    IF i > Len(spheres) THEN h
    ELSE SphereLoop(SphereStep(h, spheres[i], i, ray), spheres, i + 1, ray)

RECURSIVE BoxLoop(_, _, _, _)
BoxLoop(h, boxes, j, ray) ==
    IF j > Len(boxes) THEN h
    ELSE BoxLoop(BoxStep(h, boxes[j], j, ray), boxes, j + 1, ray)

RECURSIVE PlaneLoop(_, _, _)
PlaneLoop(h, k, ray) ==
    IF k > Len(Planes) THEN h
    ELSE PlaneLoop(PlaneStep(h, Planes[k], ray), k + 1, ray)

\* The nearest-hit search of Scene::trace: spheres, boxes, then the planes.
NearestHit(sc, ray) ==
    PlaneLoop(BoxLoop(SphereLoop(NoHit, sc.spheres, 1, ray), sc.boxes, 1, ray), 1, ray)

\* The hit after the wood override: a box hit gets the wood-grain colour.
WoodOverride(perm, h) ==
    IF h.isBox
    THEN [h EXCEPT !.hitMat.color = getWoodTextureColor(perm, h.hitPoint, h.hitNormal)]
    ELSE h


\* --------------------------------------------------------------- Scene

\* A default-constructed Scene: no primitives, the member initializers.
EmptyScene ==
    [ spheres |-> <<>>, boxes |-> <<>>,
      lightPos |-> Vec(0, 2900, 0), lightColor |-> Vec(1500, 1500, 1500),
      bgColor |-> Vec(850, 850, 850),
      cameraPos |-> Vec(0, 1500, 2500), lookAt |-> Vec(0, 1500, 0),
      fov |-> FDiv(FMul(90 * S, PI), 180 * S) ]

\* The four materials init() builds.
redMirror ==
    [DefaultMaterial EXCEPT !.color = Vec(900, 100, 100), !.ka = 50, !.kd = 0,
                            !.ks = 900, !.kr = S, !.shininess = 100, !.roughness = 0,
                            !.isMetallic = FALSE]

glass ==
    [DefaultMaterial EXCEPT !.color = Vec(950, 950, 950), !.ka = 0, !.kd = 0,
                            !.ks = 100, !.kr = 0, !.eta = 1500, !.isRefractive = TRUE,
                            !.isMetallic = FALSE, !.roughness = 0]

gold ==
    [DefaultMaterial EXCEPT !.color = Vec(1000, 760, 330), !.ka = 100, !.kd = 50,
                            !.ks = S, !.kr = 900, !.shininess = 200, !.roughness = 200,
                            !.isRefractive = FALSE, !.isMetallic = TRUE, !.eta = S]

woodBox ==
    [DefaultMaterial EXCEPT !.color = Vec(500, 300, 150), !.ka = 100, !.kd = 750,
                            !.ks = 100, !.kr = 0, !.shininess = 15,
                            !.isMetallic = FALSE, !.roughness = 50]

\* The scene after init(): the primitives pushed onto the empty scene.
InitScene ==
    [EmptyScene EXCEPT
        !.spheres = << Sphere(Vec(-1000, 400, 500), 400, redMirror),
                       Sphere(Vec(0, 400, -200), 400, glass),
                       Sphere(Vec(850, 250, 600), 250, gold) >>,
        !.boxes = << Box(Vec(500, 0, -1300), Vec(1300, 1000, -500), woodBox) >>]


\* --------------------------------------------------------------- shading

\* The direction from the hit point to the light.
LightDir(sc, h) == normalize(sub(sc.lightPos, h.hitPoint))

\* The shadow ray of the local-illumination step.
ShadowRay(sc, h) == Ray(add(h.hitPoint, scale(h.hitNormal, EPS)), LightDir(sc, h))

\* The distance from the hit point to the light.
lightDist(sc, h) == length(sub(sc.lightPos, h.hitPoint))

\* A mutation of Occluded: a refractive sphere casts no shadow.
OccludedByOpaque(sc, shadowRay, ld) ==
    \/ \E i \in 1..Len(sc.spheres) :
          /\ ~sc.spheres[i].mat.isRefractive
          /\ SphereIntersect(sc.spheres[i], shadowRay).hit
          /\ lt(SphereIntersect(sc.spheres[i], shadowRay).t, ld - EPS)
    \/ \E j \in 1..Len(sc.boxes) :
          /\ BoxIntersect(sc.boxes[j], shadowRay).hit
          /\ lt(BoxIntersect(sc.boxes[j], shadowRay).t, ld - EPS)
\* A primitive cuts shadowRay before the light, ld away: some sphere, else
\* some box.
Occluded(sc, shadowRay, ld) ==
    \/ \E i \in 1..Len(sc.spheres) :
          /\ SphereIntersect(sc.spheres[i], shadowRay).hit
          /\ lt(SphereIntersect(sc.spheres[i], shadowRay).t, ld - EPS)
    \/ \E j \in 1..Len(sc.boxes) :
          /\ BoxIntersect(sc.boxes[j], shadowRay).hit
          /\ lt(BoxIntersect(sc.boxes[j], shadowRay).t, ld - EPS)

\* The shadow test of Scene::trace.
InShadow(sc, h) == Occluded(sc, ShadowRay(sc, h), lightDist(sc, h))

\* A mutation of the shadowed colour: the ambient term is not halved.
ShadowedColorFull(m) == scale(m.color, m.ka)

\* The colour of a point in shadow: half the ambient term.
ShadowedColor(m) == scale(scale(m.color, m.ka), S \div 2)

\* The distance attenuation 1 / (1 + 0.05 * d * d).
Attenuation(ld) == FDiv(S, S + FMul(50, FMul(ld, ld)))

\* The diffuse term; a metal keeps a tenth of it.
Diffuse(m, lightColor, diff, attenuation) ==
    scale(scale(scale(scale(hadamard(m.color, lightColor), m.kd), diff), attenuation),
          IF m.isMetallic THEN 100 ELSE S)

\* The Phong highlight strength for the light direction lightDir.
Highlight(sc, h, lightDir) ==
    FPow(Max2(0, dot(normalize(sub(sc.cameraPos, h.hitPoint)),
                     normalize(sub(scale(h.hitNormal, 2 * dot(h.hitNormal, lightDir)),
                                   lightDir)))),
         h.hitMat.shininess)

\* The specular term; a metal tints it with its own colour.
Specular(m, lightColor, spec, attenuation) ==
    scale(scale(scale(IF m.isMetallic THEN m.color ELSE lightColor, m.ks), spec), attenuation)

\* The colour of a lit point for the light direction and the attenuation:
\* ambient, diffuse and specular terms.
LitTerms(sc, h, lightDir, attenuation) ==
    add(add(scale(h.hitMat.color, h.hitMat.ka),
            Diffuse(h.hitMat, sc.lightColor, Max2(0, dot(h.hitNormal, lightDir)), attenuation)),
        Specular(h.hitMat, sc.lightColor, Highlight(sc, h, lightDir), attenuation))

\* The colour of a lit point.
LitColor(sc, h) == LitTerms(sc, h, LightDir(sc, h), Attenuation(lightDist(sc, h)))

\* The local-illumination step of Scene::trace: [inShadow, localColor].
Shade(sc, h) ==
    IF InShadow(sc, h)
    THEN [inShadow |-> TRUE, localColor |-> ShadowedColor(h.hitMat)]
    ELSE [inShadow |-> FALSE, localColor |-> LitColor(sc, h)]

\* --------------------------------------------------------------- refraction

\* The recursion cap of Scene::trace.
MaxDepth == 6

\* A mutation of Schlick's approximation: the second term is not scaled by
\* 1 - R0.
SchlickUnscaled(R0, cosI) == R0 + FPow(S - cosI, 5)

\* Schlick's approximation for the normal-incidence reflectance R0.
Schlick(R0, cosI) == R0 + FMul(S - R0, FPow(S - cosI, 5))

\* The Fresnel reflectance as the refractive branch computes it.
Fresnel(eta, cosI) ==
    Schlick(FDiv(FMul(eta - S, eta - S), FMul(eta + S, eta + S)), cosI)

\* The blend of the refractive branch.
FresnelBlend(refractColor, reflectColor, fresnel) ==
    add(scale(refractColor, S - fresnel), scale(reflectColor, fresnel))

\* The mirror direction of d about the normal n.
Reflect(d, n) == normalize(sub(d, scale(scale(n, 2 * S), dot(d, n))))

\* The refracted direction.
RefractDir(d, n, eta, cosI, cosT) ==
    normalize(add(scale(d, eta), scale(n, FMul(eta, cosI) - cosT)))

\* The rays the refractive branch spawns, for sinT2.
RefractRays(ray, h, entering, cosI, n, eta, sinT2) ==
    [ entering |-> entering, cosI |-> cosI, n |-> n, eta |-> eta, sinT2 |-> sinT2,
      refractRay |->
          IF sinT2 < S
          THEN Ray(sub(h.hitPoint, scale(n, EPS)),
                   RefractDir(ray.direction, n, eta, cosI, FSqrt(S - sinT2)))
          ELSE Ray(Zero3, Zero3),
      reflectRay |->
          IF sinT2 < S
          THEN Ray(add(h.hitPoint, scale(h.hitNormal, EPS)), Reflect(ray.direction, h.hitNormal))
          ELSE Ray(add(h.hitPoint, scale(n, EPS)), Reflect(ray.direction, n)),
      fresnel |-> Fresnel(eta, cosI) ]

\* Snell's law for the flipped normal n and the relative index eta.
RefractSnell(ray, h, entering, cosI, n, eta) ==
    RefractRays(ray, h, entering, cosI, n, eta, FMul(FMul(eta, eta), S - FMul(cosI, cosI)))

\* A mutation of RefractSide: an exiting ray keeps eta as it is.
RefractSideSameEta(ray, h, cosI0) ==
    RefractSnell(ray, h, cosI0 > 0,
                 IF cosI0 > 0 THEN cosI0 ELSE -cosI0,
                 IF cosI0 > 0 THEN h.hitNormal ELSE scale(h.hitNormal, -S),
                 h.hitMat.eta)
\* Entering or exiting: an exiting ray flips cosI and the normal and inverts
\* eta.
RefractSide(ray, h, cosI0) ==
    RefractSnell(ray, h, cosI0 > 0,
                 IF cosI0 > 0 THEN cosI0 ELSE -cosI0,
                 IF cosI0 > 0 THEN h.hitNormal ELSE scale(h.hitNormal, -S),
                 IF cosI0 > 0 THEN h.hitMat.eta ELSE FDiv(S, h.hitMat.eta))

\* The set-up of the refractive branch for the hit h of ray: entering or
\* exiting, the flipped normal n, eta, cosI, sinT2 and the rays it spawns.
RefractSetup(ray, h) == RefractSide(ray, h, -dot(ray.direction, h.hitNormal))

\* --------------------------------------------------------------- sampling

\* The number of samples of a rough reflection.
GlossySamples == 16

\* A mutation of the sample count: a rough surface takes one sample more.
SamplesOneMore(m) == IF m.roughness > EPS THEN GlossySamples + 1 ELSE 1

\* The number of samples the reflection pass takes.
SAMPLES_PER_GLOSSY_RAY(m) == IF m.roughness > EPS THEN GlossySamples ELSE 1

\* The global generator rng.  Its state is a residue modulo RngMod; one draw
\* of dist_neg_pos_one returns RngOut of the state and advances it.  The
\* period of RngStep (5) divides neither the draws of one rough hit (48) nor
\* those of one pass, so that two passes start in different states, as they
\* do with the generator of the program.
RngMod == 11

RngStep(s) == (5 * s + 3) % RngMod

RngOut(s) == RoundDiv(2 * S * s, RngMod) - S

\* The perturbed direction is kept when it lies in the hemisphere of the
\* normal.
GlossyKeep(reflectDir, hitNormal, perturbed) ==
    IF dot(perturbed, hitNormal) < 0 THEN reflectDir ELSE perturbed

\* A mutation of the sampling: the three draws are made for a smooth
\* surface too.
GlossySampleAlwaysDraws(m, reflectDir, hitNormal, s) ==
    [ dir |-> GlossyKeep(reflectDir, hitNormal,
                  normalize(add(reflectDir,
                      scale(normalize(Vec(RngOut(s), RngOut(RngStep(s)),
                                          RngOut(RngStep(RngStep(s))))),
                            m.roughness)))),
      rng |-> RngStep(RngStep(RngStep(s))) ]

\* The direction of one sample of the reflection loop and the generator
\* state after it: three draws when the surface is rough, none otherwise.
GlossySample(m, reflectDir, hitNormal, s) ==
    IF m.roughness > EPS
    THEN [ dir |-> GlossyKeep(reflectDir, hitNormal,
                       normalize(add(reflectDir,
                           scale(normalize(Vec(RngOut(s), RngOut(RngStep(s)),
                                               RngOut(RngStep(RngStep(s))))),
                                 m.roughness)))),
           rng |-> RngStep(RngStep(RngStep(s))) ]
    ELSE [dir |-> reflectDir, rng |-> s]

\* The reflected light a metal tints with its own colour.
Tint(m, c) == IF m.isMetallic THEN hadamard(c, m.color) ELSE c

\* A mutation of the blend: the local light keeps its full weight.
ReflectBlendAdditive(m, finalColor, glossySum, samples) ==
    add(finalColor, scale(Tint(m, scale(glossySum, FDiv(S, samples * S))), m.kr))
\* The blend of local and reflected light at the end of the reflection pass.
ReflectBlend(m, finalColor, glossySum, samples) ==
    add(scale(finalColor, S - m.kr), scale(Tint(m, scale(glossySum, FDiv(S, samples * S))), m.kr))


\* --------------------------------------------------------------- state

VARIABLES
    pc,           \* where the program is: "start", "render", "loop", "exited", "probe"
    caller,       \* who called the running render(): "main" or "keyboard"
    scene,        \* *scene
    p,            \* the permutation table p[512]
    rng,          \* the state of the global generator rng
    framebuffer,  \* the bytes framebuffer points to (<<>>: not allocated yet)
    allocs,       \* how many times a framebuffer has been allocated
    x, y,         \* the loop variables of render()
    stack,        \* the call stack of Scene::trace, innermost call first
    ret,          \* the value the call that returned last handed to its caller
    last,         \* ghost: what the trace call that started last found and did
    invocations,  \* ghost: how many calls of trace the running primary ray led to, by depth
    writes,       \* ghost: how often the running pass wrote each byte (2: more than once)
    oob,          \* ghost: the running pass wrote outside the framebuffer
    lastFrame,    \* ghost: the framebuffer as the last completed pass left it
    rough,        \* ghost: a call of the pixel's trace tree hit a rough reflective material
    awaiting,     \* ghost: the frames of the passes keys started since the last display()
    passes,       \* ghost: how many render() calls have started
    texture,      \* the bytes display() uploaded last
    texSrc,       \* ghost: the state display() read the framebuffer in last
    redisplay,    \* the redisplay request glutPostRedisplay() leaves
    probe         \* the argument and result of a function applied on its own

vars == << pc, caller, scene, p, rng, framebuffer, allocs, x, y, stack, ret, last,
           invocations, rough, writes, oob, lastFrame, awaiting, passes, texture, texSrc,
           redisplay, probe >>

\* The image size.  The program renders 800 x 600; the model a small image.
WIDTH == 6

HEIGHT == 10

\* How many render() calls a run of the model makes at most.
MaxPasses == 3

\* How many different seeds the generator may start from.
NumSeeds == 2

\* A byte of the framebuffer that has not been written since its allocation.
Indeterminate == -1

\* The value a call of trace hands to its caller.  leaf tells that the call
\* returned without a recursive call of its own (a ghost of the model).
NoRet == [ok |-> FALSE, val |-> Zero3, leaf |-> FALSE]

Returned(v) == [ok |-> TRUE, val |-> v, leaf |-> FALSE]

ReturnedLeaf(v) == [ok |-> TRUE, val |-> v, leaf |-> TRUE]

\* A stack frame of Scene::trace(ray, depth) that has not started yet.  calls
\* counts the recursive calls the frame has made (a ghost of the model).
Frame(ray, depth) ==
    [ ray |-> ray, depth |-> depth, st |-> "call", h |-> NoHit,
      finalColor |-> Zero3, i |-> 0, samples |-> 0, acc |-> Zero3,
      reflectDir |-> Zero3, pending |-> ray, fresnel |-> 0, calls |-> 0 ]

NoLast ==
    [ ray |-> Ray(Zero3, Zero3), depth |-> 0, h |-> NoHit, branch |-> "none",
      inShadow |-> FALSE, localColor |-> Zero3 ]

\* No call of trace at any depth; a call at depth 7 is the deepest there is.
NoInvocations == [d \in 0..(MaxDepth + 1) |-> 0]

NoProbe == [fn |-> "none", arg |-> <<>>, done |-> FALSE, out |-> <<>>]

NoTexSrc == [read |-> FALSE, busy |-> FALSE, whole |-> FALSE, pass |-> 0, pending |-> <<>>]

\* --------------------------------------------------------------- trace

\* A mutation of the guard of the refractive branch: the cap is off by one.
RefractGuardLate(m, depth) == m.isRefractive /\ depth <= MaxDepth

\* The guard of the refractive branch.
RefractGuard(m, depth) == m.isRefractive /\ depth < MaxDepth

\* A mutation of the guard of the reflection pass: the cap is off by one.
ReflectGuardLate(m, depth) == m.kr > 0 /\ depth <= MaxDepth

\* The guard of the reflection pass.
ReflectGuard(m, depth) == m.kr > 0 /\ depth < MaxDepth

\* Scene::trace after the refractive branch was not taken: local
\* illumination sh, then the reflection pass or the return.
TraceLocal(ray, depth, h, sh) ==
    [ ray |-> ray, depth |-> depth, h |-> h,
      branch |-> IF ReflectGuard(h.hitMat, depth) THEN "reflect" ELSE "local",
      inShadow |-> sh.inShadow, localColor |-> sh.localColor ]

\* Scene::trace from the hit h on, after the wood override.
TraceShade(sc, ray, depth, h) ==
    IF RefractGuard(h.hitMat, depth)
    THEN [ ray |-> ray, depth |-> depth, h |-> h,
           branch |-> IF RefractSetup(ray, h).sinT2 < S THEN "refract" ELSE "tir",
           inShadow |-> FALSE, localColor |-> Zero3 ]
    ELSE TraceLocal(ray, depth, h, Shade(sc, h))

\* Scene::trace from the result h0 of the nearest-hit search on.
TraceHit(sc, perm, ray, depth, h0) ==
    IF ~h0.hasHit
    THEN [NoLast EXCEPT !.ray = ray, !.depth = depth, !.branch = "miss"]
    ELSE TraceShade(sc, ray, depth, WoodOverride(perm, h0))

\* Scene::trace(ray, depth) from its entry to its first recursive call, or to
\* its return when it makes none.  branch names the way it took:
\*   "cap"     depth > 6, the background is returned
\*   "miss"    nothing is hit, the background is returned
\*   "refract" the refractive branch, two rays will be traced
\*   "tir"     the refractive branch, total internal reflection
\*   "local"   local illumination is returned as it is
\*   "reflect" local illumination, then the reflection pass
TraceBegin(sc, perm, ray, depth) ==
    IF depth > MaxDepth
    THEN [NoLast EXCEPT !.ray = ray, !.depth = depth, !.branch = "cap"]
    ELSE TraceHit(sc, perm, ray, depth, NearestHit(sc, ray))

\* The frames of the refractive branch: the refracted ray is traced first,
\* the reflected ray is kept for later.
RefractFrames(f, h, rs) ==
    << Frame(rs.refractRay, f.depth + 1),
       [f EXCEPT !.st = "refract", !.h = h, !.pending = rs.reflectRay,
                 !.fresnel = rs.fresnel, !.calls = @ + 1] >>

\* The frames of total internal reflection.
TirFrames(f, h, rs) ==
    << Frame(rs.reflectRay, f.depth + 1),
       [f EXCEPT !.st = "tir", !.h = h, !.calls = @ + 1] >>

\* The frame of a call that enters the reflection pass.
GlossFrame(f, o) ==
    [f EXCEPT !.st = "gloss", !.h = o.h, !.finalColor = o.localColor,
              !.samples = SAMPLES_PER_GLOSSY_RAY(o.h.hitMat),
              !.reflectDir = Reflect(f.ray.direction, o.h.hitNormal)]

\* The stack and the returned value after the call f has run up to its first
\* recursive call or its return; o is what TraceBegin found.
TraceEnter(f, o, rest, bg) ==
    CASE o.branch \in {"cap", "miss"} -> [stack |-> rest, ret |-> ReturnedLeaf(bg)]
      [] o.branch = "local"   -> [stack |-> rest, ret |-> ReturnedLeaf(o.localColor)]
      [] o.branch = "refract" ->
            [stack |-> RefractFrames(f, o.h, RefractSetup(f.ray, o.h)) \o rest, ret |-> NoRet]
      [] o.branch = "tir"     ->
            [stack |-> TirFrames(f, o.h, RefractSetup(f.ray, o.h)) \o rest, ret |-> NoRet]
      [] o.branch = "reflect" -> [stack |-> <<GlossFrame(f, o)>> \o rest, ret |-> NoRet]

\* A mutation of the wood override: the colour is written through to the
\* material of the box in the scene, not to the call's copy of it.
SceneAfterOverrideAliased(sc, h) ==
    IF h.hasHit /\ h.isBox
    THEN [sc EXCEPT !.boxes[h.prim[2]].mat.color = h.hitMat.color]
    ELSE sc

\* The scene after a call of trace has found its hit h and overridden the
\* colour: hitMat is the call's own copy of the material, so every primitive
\* of the scene keeps its own.
SceneAfterOverride(sc, h) == sc

\* The hit h is on a material that is not refractive, reflects and is rough:
\* the only kind of hit whose reflection pass draws from the generator.
RoughReflective(h) ==
    h.hasHit /\ ~h.hitMat.isRefractive /\ h.hitMat.kr > 0 /\ h.hitMat.roughness > EPS

\* The start of the innermost call of trace.
TraceCall ==
    /\ stack # <<>>
    /\ Head(stack).st = "call"
    /\ ~ret.ok
    /\ \E o \in {TraceBegin(scene, p, Head(stack).ray, Head(stack).depth)} :
          /\ last' = o
          /\ scene' = SceneAfterOverride(scene, o.h)
          /\ invocations' = [invocations EXCEPT ![Head(stack).depth] = @ + 1]
          /\ rough' = (rough \/ RoughReflective(o.h))
          /\ \E e \in {TraceEnter(Head(stack), o, Tail(stack), scene.bgColor)} :
                /\ stack' = e.stack
                /\ ret' = e.ret
    /\ UNCHANGED << pc, caller, p, rng, framebuffer, allocs, x, y, writes, oob, lastFrame,
                    awaiting, passes, texture, texSrc, redisplay, probe >>

\* One iteration of the reflection loop up to its recursive call.
ReflectSample ==
    /\ stack # <<>>
    /\ Head(stack).st = "gloss"
    /\ ~ret.ok
    /\ Head(stack).i < Head(stack).samples
    /\ \E g \in {GlossySample(Head(stack).h.hitMat, Head(stack).reflectDir,
                              Head(stack).h.hitNormal, rng)} :
          /\ rng' = g.rng
          /\ stack' = << Frame(Ray(add(Head(stack).h.hitPoint,
                                       scale(Head(stack).h.hitNormal, EPS)), g.dir),
                               Head(stack).depth + 1),
                         [Head(stack) EXCEPT !.calls = @ + 1] >> \o Tail(stack)
    /\ UNCHANGED << pc, caller, scene, p, framebuffer, allocs, x, y, ret, last, invocations,
                    rough, writes, oob, lastFrame, awaiting, passes, texture, texSrc,
                    redisplay, probe >>

\* The increment of the reflection loop.
NextSample(i) == i + 1

\* The stack and the returned value after the recursive call of the frame f
\* has returned val: f goes on to its next recursive call, or returns.
TraceResume(f, val, rest) ==
    CASE f.st = "refract" ->
            [ stack |-> << Frame(f.pending, f.depth + 1),
                           [f EXCEPT !.st = "refract2", !.acc = val, !.calls = @ + 1] >>
                         \o rest,
              ret |-> NoRet ]
      [] f.st = "refract2" ->
            [stack |-> rest, ret |-> Returned(FresnelBlend(f.acc, val, f.fresnel))]
      [] f.st = "tir" -> [stack |-> rest, ret |-> Returned(val)]
      [] f.st = "gloss" ->
            IF NextSample(f.i) < f.samples
            THEN [ stack |-> <<[f EXCEPT !.acc = add(f.acc, val), !.i = NextSample(f.i)]>> \o rest,
                   ret |-> NoRet ]
            ELSE [ stack |-> rest,
                   ret |-> Returned(ReflectBlend(f.h.hitMat, f.finalColor,
                                                 add(f.acc, val), f.samples)) ]

\* A recursive call has returned: its caller goes on to its next recursive
\* call, or to its own return.
TraceReturn ==
    /\ stack # <<>>
    /\ ret.ok
    /\ Head(stack).st # "call"
    /\ \E e \in {TraceResume(Head(stack), ret.val, Tail(stack))} :
          /\ stack' = e.stack
          /\ ret' = e.ret
    /\ UNCHANGED << pc, caller, scene, p, rng, framebuffer, allocs, x, y, last, invocations,
                    rough, writes, oob, lastFrame, awaiting, passes, texture, texSrc,
                    redisplay, probe >>


\* --------------------------------------------------------------- render

\* The number of bytes of the framebuffer.
FrameBytes == WIDTH * HEIGHT * 3

RECURSIVE Root(_, _)
\* c to the power 1 / 2^k: k square roots, one after the other.
Root(c, k) == IF k = 0 THEN c ELSE FSqrt(Root(c, k - 1))

\* std::pow(c, 0.454f) on [0, 1]: the exponent is taken as its binary expansion
\* 1/4 + 1/8 + 1/16 + 1/64, every factor a repeated square root.
Pow0454(c) == FMul(FMul(FMul(Root(c, 2), Root(c, 3)), Root(c, 4)), Root(c, 6))

\* The gamma step on one channel: clamp to [0, 1], then the power.
Gamma(c) == Pow0454(Max2(0, Min2(c, S)))

\* A mutation of the byte conversion: the channel is scaled by 256 and the
\* cap at 255 is missing, so a full channel wraps to 0 in the byte.
ToByteWrap(c) == Trunc(FMul(c, 256 * S)) % 256
\* The byte stored for a gamma-corrected channel.
ToByte(c) == Trunc(Min2(255 * S, FMul(c, 255 * S)))

\* The three bytes stored for the colour col.
PixelBytes(col) == <<ToByte(Gamma(col[1])), ToByte(Gamma(col[2])), ToByte(Gamma(col[3]))>>

\* The ray through the image-plane point (u, v) for the camera basis.
CameraRay(pos, forward, right, u, v) ==
    Ray(pos, normalize(add(add(forward, scale(right, u)),
                           scale(normalize(cross(right, forward)), v))))

\* The image-plane coordinates of the pixel (px, py) and the ray through
\* them; tn is tan(fov / 2).
PixelRay(pos, forward, tn, px, py) ==
    CameraRay(pos, forward, normalize(cross(forward, Vec(0, S, 0))),
              FMul(FMul(RoundDiv(2 * S * px, WIDTH) - S, tn), RoundDiv(WIDTH * S, HEIGHT)),
              FMul(S - RoundDiv(2 * S * py, HEIGHT), tn))

\* The primary ray of the pixel (px, py).
PrimaryRay(sc, px, py) ==
    PixelRay(sc.cameraPos, normalize(sub(sc.lookAt, sc.cameraPos)),
             Tan(FDiv(sc.fov, 2 * S)), px, py)

\* A mutation of the pixel index: the row stride counts bytes, not pixels.
PixelIndexByteStride(px, py) == (py * WIDTH * 3 + px) * 3

\* The framebuffer index of the first byte of the pixel (px, py).
PixelIndex(px, py) == (py * WIDTH + px) * 3

\* The framebuffer after the three stores of one pixel at idx.  A store
\* outside the allocation changes no byte of it.
StorePixel(fb, idx, bytes) ==
    [k \in DOMAIN fb |-> IF k \in idx..(idx + 2) THEN bytes[k - idx + 1] ELSE fb[k]]

\* The write counts after one more write to each index of idxs.
CountWrites(w, idxs) ==
    [k \in DOMAIN w |-> IF k \in idxs THEN Min2(w[k] + 1, 2) ELSE w[k]]

\* The body of the pixel loop up to the call of trace.
RenderPixel ==
    /\ pc = "render"
    /\ stack = <<>>
    /\ ~ret.ok
    /\ y < HEIGHT
    /\ stack' = <<Frame(PrimaryRay(scene, x, y), 0)>>
    /\ invocations' = NoInvocations
    /\ rough' = FALSE
    /\ UNCHANGED << pc, caller, scene, p, rng, framebuffer, allocs, x, y, ret, last, writes,
                    oob, lastFrame, awaiting, passes, texture, texSrc, redisplay, probe >>

\* A mutation of the row increment: the row counter is not advanced.
NextRowStuck(py) == py

\* The increment of the row loop.
NextRow(py) == py + 1

\* The rest of the body of the pixel loop: gamma, the three stores, and the
\* loop increments.
WritePixel ==
    /\ pc = "render"
    /\ stack = <<>>
    /\ ret.ok
    /\ framebuffer' = StorePixel(framebuffer, PixelIndex(x, y), PixelBytes(ret.val))
    /\ writes' = CountWrites(writes, PixelIndex(x, y)..(PixelIndex(x, y) + 2))
    /\ oob' = (oob \/ ~(PixelIndex(x, y)..(PixelIndex(x, y) + 2) \subseteq DOMAIN framebuffer))
    /\ ret' = NoRet
    /\ IF x + 1 < WIDTH
       THEN x' = x + 1 /\ y' = y
       ELSE x' = 0 /\ y' = NextRow(y)
    /\ UNCHANGED << pc, caller, scene, p, rng, allocs, stack, last, invocations, rough,
                    lastFrame, awaiting, passes, texture, texSrc, redisplay, probe >>

\* A mutation of keyboard(): glutPostRedisplay() is left out after render().
PostRedisplayNever(flag, by) == flag

\* The redisplay flag of the window when render() has returned to `by`:
\* keyboard() calls glutPostRedisplay() after render(), main() does not.
PostRedisplay(flag, by) == flag \/ by = "keyboard"

\* The row loop has ended: render() returns to main(), which enters the event
\* loop, or to keyboard(), which requests a redisplay and returns to the
\* event loop.
RenderReturn ==
    /\ pc = "render"
    /\ stack = <<>>
    /\ ~ret.ok
    /\ y >= HEIGHT
    /\ pc' = "loop"
    /\ redisplay' = PostRedisplay(redisplay, caller)
    /\ lastFrame' = framebuffer
    /\ awaiting' = IF caller = "keyboard" THEN Append(awaiting, framebuffer) ELSE awaiting
    /\ UNCHANGED << caller, scene, p, rng, framebuffer, allocs, x, y, stack, ret, last,
                    invocations, rough, writes, oob, passes, texture, texSrc, probe >>

\* --------------------------------------------------------------- program

\* A mutation of initPerlinNoise: the second loop, which copies the table
\* into its upper half, is missing.
initPerlinNoiseNoCopy(s) ==
    [k \in 0..(2 * TableSize - 1) |->
        IF k < TableSize THEN ((2 * s + 1) * k + 7 * s) % TableSize ELSE 0]

\* A mutation of initPerlinNoise: the table is filled with draws of the
\* generator, which may repeat, and not shuffled.
initPerlinNoiseDrawn(s) ==
    [k \in 0..(2 * TableSize - 1) |-> ((2 * s + 2) * (k % TableSize) + 7 * s) % TableSize]

\* The table std::shuffle leaves for the generator state s: one permutation
\* of 0..255 for each state, duplicated into the upper half of p.
initPerlinNoise(s) ==
    [k \in 0..(2 * TableSize - 1) |-> ((2 * s + 1) * (k % TableSize) + 7 * s) % TableSize]

\* init(), called by main() once: the noise table, the framebuffer, the scene.
\* main() calls render() next.
init ==
    /\ pc = "start"
    /\ p' = initPerlinNoise(rng)
    /\ rng' = RngStep(rng)
    /\ framebuffer' = [k \in 0..(FrameBytes - 1) |-> Indeterminate]
    /\ allocs' = allocs + 1
    /\ scene' = InitScene
    /\ pc' = "render"
    /\ caller' = "main"
    /\ x' = 0 /\ y' = 0
    /\ writes' = [k \in 0..(FrameBytes - 1) |-> 0]
    /\ oob' = FALSE
    /\ passes' = passes + 1
    /\ UNCHANGED << stack, ret, last, invocations, rough, lastFrame, awaiting, texture, texSrc,
                    redisplay, probe >>

\* A mutation of the dispatch condition: display() may run while render() is.
CanDisplayAnytime == pc \in {"loop", "render"}

\* glutMainLoop() dispatches a callback only between two callbacks: the
\* program has one thread, and render() runs inside main() or keyboard().
CanDisplay == pc = "loop"

\* display(): the framebuffer is uploaded as the texture.  A byte never
\* written has an indeterminate value.
display ==
    /\ CanDisplay
    /\ IF \A k \in DOMAIN framebuffer : framebuffer[k] # Indeterminate
       THEN texture' = framebuffer
       ELSE \E b \in {0, 255} :
               texture' = [k \in DOMAIN framebuffer |->
                              IF framebuffer[k] = Indeterminate THEN b ELSE framebuffer[k]]
    /\ texSrc' = [ read |-> TRUE, busy |-> pc = "render",
                   whole |-> passes >= 1 /\ framebuffer = lastFrame, pass |-> passes,
                   pending |-> awaiting ]
    /\ redisplay' = FALSE
    /\ awaiting' = <<>>
    /\ UNCHANGED << pc, caller, scene, p, rng, framebuffer, allocs, x, y, stack, ret, last,
                    invocations, rough, writes, oob, lastFrame, passes, probe >>

\* The keys the model presses: ESC, space and one other key.
Keys == {27, 32, 97}

\* keyboard(key, x, y): ESC exits, space renders again and requests a
\* redisplay, any other key does nothing.
keyboard ==
    /\ pc = "loop"
    /\ \E key \in Keys :
          IF key = 27
          THEN /\ pc' = "exited"
               /\ UNCHANGED << caller, x, y, writes, oob, passes >>
          ELSE IF key = 32
          THEN /\ passes < MaxPasses
               /\ pc' = "render"
               /\ caller' = "keyboard"
               /\ x' = 0 /\ y' = 0
               /\ writes' = [k \in DOMAIN writes |-> 0]
               /\ oob' = FALSE
               /\ passes' = passes + 1
          ELSE UNCHANGED << pc, caller, x, y, writes, oob, passes >>
    /\ UNCHANGED << scene, p, rng, framebuffer, allocs, stack, ret, last, invocations, rough,
                    lastFrame, awaiting, texture, texSrc, redisplay, probe >>

\* The state main() has constructed before init(): the empty scene, no
\* framebuffer, nothing rendered or displayed yet.
Constructed ==
    /\ caller = "main"
    /\ scene = EmptyScene
    /\ p = [k \in 0..(2 * TableSize - 1) |-> 0]
    /\ framebuffer = <<>>
    /\ allocs = 0
    /\ x = 0 /\ y = 0
    /\ stack = <<>>
    /\ ret = NoRet
    /\ last = NoLast
    /\ invocations = NoInvocations
    /\ writes = <<>>
    /\ oob = FALSE
    /\ lastFrame = <<>>
    /\ awaiting = <<>>
    /\ rough = FALSE
    /\ passes = 0
    /\ texture = <<>>
    /\ texSrc = NoTexSrc
    /\ redisplay = FALSE

\* The state after main() has constructed the scene and before init().
Init ==
    /\ pc = "start"
    /\ rng \in 0..(NumSeeds - 1)
    /\ probe = NoProbe
    /\ Constructed

\* The steps of one render() call.
RenderStep ==
    \/ RenderPixel
    \/ TraceCall
    \/ ReflectSample
    \/ TraceReturn
    \/ WritePixel
    \/ RenderReturn

Next ==
    \/ init
    \/ RenderStep
    \/ display
    \/ keyboard

Spec == Init /\ [][Next]_vars

\* render() is at a step it can take: the conditions under which one of the
\* steps of RenderStep is enabled.
RenderRunning ==
    \/ pc = "render" /\ stack = <<>>
    \/ stack # <<>> /\ ~ret.ok /\ Head(stack).st = "call"
    \/ stack # <<>> /\ ~ret.ok /\ Head(stack).st = "gloss"
                    /\ Head(stack).i < Head(stack).samples
    \/ stack # <<>> /\ ret.ok /\ Head(stack).st # "call"

\* The program has one thread, which main() never blocks before the event
\* loop: init() runs, and a render() call that can take a step takes it.
\* The second condition is weak fairness of RenderStep, WF_vars(RenderStep),
\* with the enabling condition of RenderStep written out as RenderRunning.
LiveSpec ==
    /\ Init /\ [][Next]_vars
    /\ WF_vars(init)
    /\ ([]<>~RenderRunning) \/ ([]<><<RenderStep>>_vars)

\* --------------------------------------------------------------- functions on their own

\* A function applied on its own: fn names it, arg is its argument, out its
\* result once done.
Probe(fn, arg) == [fn |-> fn, arg |-> arg, done |-> FALSE, out |-> <<>>]

\* How far the ray origins of the sphere probes spread (in half units along
\* y, in steps of 2.5 along z).
SphereGrid == 2

\* The sphere of the probes: the unit sphere at the origin.
UnitSphere == Sphere(Zero3, S, DefaultMaterial)

SphereProbes ==
    { Probe("sphere", [sphere |-> UnitSphere, ray |-> Ray(Vec(0, a * 500, b * 2500), d)]) :
        a \in 0..SphereGrid, b \in (-SphereGrid)..SphereGrid,
        d \in {Vec(0, 0, -S), Vec(0, 0, S), Vec(0, -S, 0), Vec(0, -600, -800)} }

\* Sphere::intersect on its own, and the normal the sphere loop derives.
ApplySphere ==
    /\ pc = "probe"
    /\ probe.fn = "sphere"
    /\ ~probe.done
    /\ probe' = [probe EXCEPT
                    !.done = TRUE,
                    !.out = [ r |-> SphereIntersect(probe.arg.sphere, probe.arg.ray),
                              h |-> SphereStep(NoHit, probe.arg.sphere, 1, probe.arg.ray) ]]
    /\ UNCHANGED << pc, caller, scene, p, rng, framebuffer, allocs, x, y, stack, ret, last,
                    invocations, rough, writes, oob, lastFrame, awaiting, passes, texture,
                    texSrc, redisplay >>

\* How far the ray origins of the box probes spread about the face centre
\* (in steps of 0.4).
BoxGrid == 2

\* The box of the probes.
UnitBox == Box(Vec(-S, 0, -S), Vec(S, S, S), DefaultMaterial)

\* Rays that start outside the box and enter it through its top face, or
\* through its face x = 1, away from the edges.
BoxProbes ==
    { Probe("box", [box |-> UnitBox, face |-> Vec(0, S, 0), t |-> 4 * S,
                    ray |-> Ray(Vec(a * 400, 5 * S, b * 400), Vec(0, -S, 0))]) :
        a \in (-BoxGrid)..BoxGrid, b \in (-BoxGrid)..BoxGrid }
    \cup
    { Probe("box", [box |-> UnitBox, face |-> Vec(S, 0, 0), t |-> 4 * S,
                    ray |-> Ray(Vec(5 * S, 500 + a * 200, b * 400), Vec(-S, 0, 0))]) :
        a \in (-BoxGrid)..BoxGrid, b \in (-BoxGrid)..BoxGrid }

\* How many thousandths the entry distances of the range probes go past the
\* two ends of the accepted range.
RangeGrid == 3

\* A box whose top face lies in the plane y = 0.
RangeBox == Box(Vec(-S, -S, -S), Vec(S, 0, S), DefaultMaterial)

\* Rays that point straight down at the top face of RangeBox from the height
\* t above it: heights about 0.001 and about 1000.
BoxRangeProbes ==
    { Probe("boxrange", [box |-> RangeBox, t |-> t,
                         ray |-> Ray(Vec(200, t, 100), Vec(0, -S, 0))]) :
        t \in (0..RangeGrid) \cup ((1000 * S - RangeGrid)..(1000 * S + RangeGrid)) }

\* How many origins the inside probes take on each side of the middle of
\* the box, along each axis.
InsideGrid == 1

\* Rays that start strictly inside the box, from its middle to 0.001 off its
\* faces, in directions along the axes, along diagonals, nearly parallel to
\* a face, and with the zero direction.
InsideProbes ==
    { Probe("inside", [box |-> UnitBox,
                       ray |-> Ray(Vec(a * (999 \div InsideGrid),
                                       500 + b * (499 \div InsideGrid),
                                       c * (999 \div InsideGrid)),
                                   Vec(dx, dy, dz))]) :
        a \in (-InsideGrid)..InsideGrid, b \in (-InsideGrid)..InsideGrid,
        c \in (-InsideGrid)..InsideGrid,
        dx \in {-S, 0, 1, S}, dy \in {-S, 0, 1, S}, dz \in {-S, 0, 1, S} }

\* Box::intersect on its own.
ApplyBox ==
    /\ pc = "probe"
    /\ probe.fn \in {"box", "boxrange", "inside"}
    /\ ~probe.done
    /\ probe' = [probe EXCEPT !.done = TRUE,
                              !.out = BoxIntersect(probe.arg.box, probe.arg.ray)]
    /\ UNCHANGED << pc, caller, scene, p, rng, framebuffer, allocs, x, y, stack, ret, last,
                    invocations, rough, writes, oob, lastFrame, awaiting, passes, texture,
                    texSrc, redisplay >>

\* How far the ray origins of the nearest-hit probes spread (in steps of 0.1
\* along x).
NearGrid == 3

\* A scene with primitives that coincide: two spheres with one centre and
\* radius, and two boxes with the same corners whose front face touches the
\* spheres.
TieScene ==
    [EmptyScene EXCEPT
        !.spheres = << Sphere(Vec(0, 1500, 0), 500, redMirror),
                       Sphere(Vec(0, 1500, 0), 500, glass) >>,
        !.boxes = << Box(Vec(-300, 1200, -500), Vec(300, 1800, 500), woodBox),
                     Box(Vec(-300, 1200, -500), Vec(300, 1800, 500), DefaultMaterial) >>]

\* The directions from the middle of the room to the edges and corners where
\* two or three of the bounded planes meet.
EdgeDirections ==
    { d \in {-S, 0, S} \X {-S, S} \X {-S, 0} : d[1] # 0 \/ d[3] # 0 }
    \cup {Vec(-S, 0, -S), Vec(S, 0, -S)}

\* Rays of the program's scene that start just below the floor, as the rays
\* do that leave the glass sphere where it touches the floor, rays that
\* start at the camera, rays from the middle of the room to the edges of the
\* room, and rays that meet the coinciding primitives of TieScene.
NearestProbes ==
    { Probe("nearest", [scene |-> InitScene, ray |-> Ray(Vec(0, 1500, 0), d)]) :
        d \in EdgeDirections }
    \cup
    { Probe("nearest", [scene |-> InitScene, ray |-> Ray(Vec(900, -100, -900), Vec(0, S, 0))]) }
    \cup
    { Probe("nearest", [scene |-> TieScene, ray |-> Ray(o, d)]) :
        o \in { Vec(a * 100, 1500, 2000) : a \in (-NearGrid)..NearGrid }, d \in {Vec(0, 0, -S)} }
    \cup
    { Probe("nearest", [scene |-> TieScene, ray |-> Ray(Vec(a * 100, 0, 0), Vec(0, S, 0))]) :
        a \in (-NearGrid)..NearGrid }
    \cup
    { Probe("nearest", [scene |-> InitScene, ray |-> Ray(Vec(a * 100, -100, -200), d)]) :
        a \in (-NearGrid)..NearGrid, d \in {Vec(0, S, 0), Vec(0, 766, 643)} }
    \cup
    { Probe("nearest", [scene |-> InitScene,
                        ray |-> Ray(InitScene.cameraPos, Vec(a * 300, b * 300, -S))]) :
        a \in (-NearGrid)..NearGrid, b \in (-NearGrid)..NearGrid }

\* The nearest-hit search of Scene::trace on its own.
ApplyNearest ==
    /\ pc = "probe"
    /\ probe.fn = "nearest"
    /\ ~probe.done
    /\ probe' = [probe EXCEPT !.done = TRUE,
                              !.out = NearestHit(probe.arg.scene, probe.arg.ray)]
    /\ UNCHANGED << pc, caller, scene, p, rng, framebuffer, allocs, x, y, stack, ret, last,
                    invocations, rough, writes, oob, lastFrame, awaiting, passes, texture,
                    texSrc, redisplay >>

\* The number of values of cosI in (0, 1] and of eta in (1, 3] the Fresnel
\* probes take.
CosSteps == 20

EtaSteps == 20

FresnelProbes ==
    { Probe("fresnel", [eta |-> S + k * ((2 * S) \div EtaSteps), cosI |-> c]) :
        k \in 1..EtaSteps, c \in {EPS} \cup { (j * S) \div CosSteps : j \in 1..CosSteps } }

\* The Fresnel value of the refractive branch on its own, and the weights
\* its blend gives the refracted and the reflected colour.
ApplyFresnel ==
    /\ pc = "probe"
    /\ probe.fn = "fresnel"
    /\ ~probe.done
    /\ probe' = [probe EXCEPT
                    !.done = TRUE,
                    !.out = [ fresnel |-> Fresnel(probe.arg.eta, probe.arg.cosI),
                              refracted |-> FresnelBlend(Vec(S, S, S), Zero3,
                                                Fresnel(probe.arg.eta, probe.arg.cosI)),
                              reflected |-> FresnelBlend(Zero3, Vec(S, S, S),
                                                Fresnel(probe.arg.eta, probe.arg.cosI)) ]]
    /\ UNCHANGED << pc, caller, scene, p, rng, framebuffer, allocs, x, y, stack, ret, last,
                    invocations, rough, writes, oob, lastFrame, awaiting, passes, texture,
                    texSrc, redisplay >>

\* How far the lattice corners of the noise probes lie from the wrap of the
\* cell index, on either side of it.
PerlinGrid == 2

\* In how many steps the noise probes walk along a cell edge.
EdgeSteps == 4

\* Lattice corners (X, Y) next to the wrap of the cell index and away from it,
\* a point at the fraction fr of the cell edges that leave the corner, and the
\* generator state the table is shuffled from.
PerlinProbes ==
    { Probe("perlin", [seed |-> s, X |-> X, Y |-> Y, fr |-> (j * S) \div EdgeSteps]) :
        s \in 0..(RngMod - 1),
        X \in (0..PerlinGrid) \cup ((TableSize - PerlinGrid)..(TableSize - 1)),
        Y \in (0..PerlinGrid) \cup ((TableSize - PerlinGrid)..(TableSize - 1)),
        j \in 0..EdgeSteps }

\* perlinNoise about the lattice corner (X, Y): the hash each of the four
\* cells that share the corner reads for it, and the noise on the two cell
\* edges that leave the corner, as each of the two cells along an edge
\* computes it.
PerlinAbout(perm, X, Y, Xl, Yb, fr) ==
    [ hashes |-> << CornerHash(perm, X, Y, 0, 0), CornerHash(perm, Xl, Y, 1, 0),
                    CornerHash(perm, X, Yb, 0, 1), CornerHash(perm, Xl, Yb, 1, 1) >>,
      left  |-> PerlinCell(perm, Xl, Y, S, fr),
      right |-> PerlinCell(perm, X, Y, 0, fr),
      below |-> PerlinCell(perm, X, Yb, fr, S),
      above |-> PerlinCell(perm, X, Y, fr, 0) ]

ApplyPerlin ==
    /\ pc = "probe"
    /\ probe.fn = "perlin"
    /\ ~probe.done
    /\ probe' = [probe EXCEPT
                    !.done = TRUE,
                    !.out = PerlinAbout(initPerlinNoise(probe.arg.seed),
                                        probe.arg.X, probe.arg.Y,
                                        (probe.arg.X - 1) % TableSize,
                                        (probe.arg.Y - 1) % TableSize,
                                        probe.arg.fr)]
    /\ UNCHANGED << pc, caller, scene, p, rng, framebuffer, allocs, x, y, stack, ret, last,
                    invocations, rough, writes, oob, lastFrame, awaiting, passes, texture,
                    texSrc, redisplay >>
\* How far outside [0, 1] the channel values of the output probes go, in
\* thousandths.
ChannelOver == 200

\* Channel values a call of trace may return, each with a value next to it
\* that is not smaller: every thousandth from below 0 to above 1, the
\* infinities and NaN.
GammaProbes ==
    { Probe("gamma", [c |-> c, next |-> c + 1]) : c \in (-ChannelOver)..(S + ChannelOver) }
    \cup { Probe("gamma", [c |-> -Inf, next |-> -ChannelOver]),
           Probe("gamma", [c |-> S + ChannelOver, next |-> Inf]),
           Probe("gamma", [c |-> NaN, next |-> NaN]) }

\* The output stage of render() on one channel, and on the value next to it.
ApplyGamma ==
    /\ pc = "probe"
    /\ probe.fn = "gamma"
    /\ ~probe.done
    /\ probe' = [probe EXCEPT
                    !.done = TRUE,
                    !.out = [ g |-> Gamma(probe.arg.c),
                              byte |-> ToByte(Gamma(probe.arg.c)),
                              gNext |-> Gamma(probe.arg.next),
                              byteNext |-> ToByte(Gamma(probe.arg.next)) ]]
    /\ UNCHANGED << pc, caller, scene, p, rng, framebuffer, allocs, x, y, stack, ret, last,
                    invocations, rough, writes, oob, lastFrame, awaiting, passes, texture,
                    texSrc, redisplay >>
\* A hit record as the sphere loop leaves it: the glass sphere at distance 1.5.
PriorHit ==
    [NoHit EXCEPT !.tMin = 1500, !.hitMat = glass, !.hitPoint = Vec(0, 0, 0),
                  !.hitNormal = Vec(0, S, 0), !.hasHit = TRUE, !.prim = <<"sphere", 2>>]

\* Rays for one plane block: from inside the room, from a plane, from next to
\* the floor and from outside the room; along the axes, towards the edges of
\* the room and almost parallel to the floor.
PlaneProbes ==
    { Probe("plane", [h |-> h, k |-> k, ray |-> Ray(o, d)]) :
        h \in {NoHit, PriorHit}, k \in DOMAIN Planes,
        o \in { Vec(0, 1500, 0), Vec(0, 1, 0), Vec(0, 0, 0), Vec(0, 1500, 2500),
                Vec(3000, 1500, 0) },
        d \in { Vec(S, 0, 0), Vec(-S, 0, 0), Vec(0, S, 0), Vec(0, -S, 0), Vec(0, 0, S),
                Vec(0, 0, -S), Vec(S, -1, 0), Vec(S, -2, 0), Vec(-S, -S, 0),
                Vec(S, -S, -S) } }

\* One plane block of Scene::trace on its own.
ApplyPlane ==
    /\ pc = "probe"
    /\ probe.fn = "plane"
    /\ ~probe.done
    /\ probe' = [probe EXCEPT !.done = TRUE,
                              !.out = PlaneStep(probe.arg.h, Planes[probe.arg.k],
                                                probe.arg.ray)]
    /\ UNCHANGED << pc, caller, scene, p, rng, framebuffer, allocs, x, y, stack, ret, last,
                    invocations, rough, writes, oob, lastFrame, awaiting, passes, texture,
                    texSrc, redisplay >>
\* The floor points of the shadow probes are ShadowGrid steps of 0.2 to
\* either side of the origin.
ShadowGrid == 3

\* Scenes for the shadow test: no sphere, a glass or a mirror sphere above
\* the origin, or a sphere beyond the light; no box or a box above the
\* origin; the light inside the room or above the ceiling.
ShadowScenes ==
    { [EmptyScene EXCEPT !.spheres = ss, !.boxes = bs, !.lightPos = lp] :
        ss \in { <<>>, << Sphere(Vec(0, 1000, 0), 300, glass) >>,
                 << Sphere(Vec(0, 1000, 0), 300, redMirror) >>,
                 << Sphere(Vec(0, 3500, 0), 300, redMirror) >> },
        bs \in { <<>>, << Box(Vec(-300, 1500, -300), Vec(300, 1800, 300), woodBox) >> },
        lp \in { Vec(0, 2900, 0), Vec(0, 3200, 0) } }

\* A hit of the floor at (a, 0, 0).
FloorHit(a) ==
    [NoHit EXCEPT !.tMin = S, !.hitPoint = Vec(a, 0, 0), !.hitNormal = Vec(0, S, 0),
                  !.hasHit = TRUE, !.prim = <<"floor", 0>>]

\* Floor points under and beside the occluders, in each of the scenes and in
\* the program's scene.
ShadowProbes ==
    { Probe("shadow", [scene |-> sc, h |-> FloorHit(a * 200)]) :
        sc \in ShadowScenes \cup {InitScene}, a \in (-ShadowGrid)..ShadowGrid }

\* The local-illumination step of Scene::trace on its own.
ApplyShadow ==
    /\ pc = "probe"
    /\ probe.fn = "shadow"
    /\ ~probe.done
    /\ probe' = [probe EXCEPT !.done = TRUE, !.out = Shade(probe.arg.scene, probe.arg.h)]
    /\ UNCHANGED << pc, caller, scene, p, rng, framebuffer, allocs, x, y, stack, ret, last,
                    invocations, rough, writes, oob, lastFrame, awaiting, passes, texture,
                    texSrc, redisplay >>
\* The primary rays of the trace probes aim TraceGrid steps of 0.1 to either
\* side of the centre of a sphere.
TraceGrid == 4

\* Calls of trace in the program's scene: rays from the camera towards the
\* glass sphere, from its centre to its rim, at depth 0, and towards the
\* centres of the glass, the mirror and the gold sphere at the depths around
\* the cap.
TraceProbes ==
    { Probe("trace", [ray |-> Ray(InitScene.cameraPos,
                                  normalize(sub(Vec(a * 100, 400, -200), InitScene.cameraPos))),
                      depth |-> 0]) : a \in (-TraceGrid)..TraceGrid }
    \cup
    { Probe("trace", [ray |-> Ray(InitScene.cameraPos,
                                  normalize(sub(c, InitScene.cameraPos))),
                      depth |-> d]) :
        c \in {Vec(0, 400, -200), Vec(-1000, 400, 500), Vec(850, 250, 600)},
        d \in {0, MaxDepth - 1, MaxDepth, MaxDepth + 1} }

\* Scene::trace is called with the ray and the depth of the probe, after
\* init() has built the scene and the noise table.
ApplyTrace ==
    /\ pc = "probe"
    /\ probe.fn = "trace"
    /\ ~probe.done
    /\ probe' = [probe EXCEPT !.done = TRUE]
    /\ scene' = InitScene
    /\ p' = initPerlinNoise(rng)
    /\ stack' = <<Frame(probe.arg.ray, probe.arg.depth)>>
    /\ invocations' = NoInvocations
    /\ rough' = FALSE
    /\ UNCHANGED << pc, caller, rng, framebuffer, allocs, x, y, ret, last, writes, oob,
                    lastFrame, awaiting, passes, texture, texSrc, redisplay >>
\* Rays for the wood override: those of the nearest-hit search, and rays that
\* come down through the ceiling above the wood box and beside it.
OverrideProbes ==
    { Probe("override", q.arg) : q \in NearestProbes }
    \cup
    { Probe("override", [scene |-> InitScene,
                         ray |-> Ray(Vec(900 + a * 100, 3500, -900), Vec(0, -S, 0))]) :
        a \in (-NearGrid)..NearGrid }

\* The nearest-hit search of Scene::trace and the wood override after it.
ApplyOverride ==
    /\ pc = "probe"
    /\ probe.fn = "override"
    /\ ~probe.done
    /\ probe' = [probe EXCEPT !.done = TRUE,
                              !.out = WoodOverride(initPerlinNoise(rng),
                                                   NearestHit(probe.arg.scene, probe.arg.ray))]
    /\ UNCHANGED << pc, caller, scene, p, rng, framebuffer, allocs, x, y, stack, ret, last,
                    invocations, rough, writes, oob, lastFrame, awaiting, passes, texture,
                    texSrc, redisplay >>
\* The coordinates of the index probes lie IndexGrid cells to either side of
\* -256, 0 and 255, on a cell border and in the middle of a cell.
IndexGrid == 1

IndexCoords ==
    { (c + k) * S + f : c \in {-TableSize, 0, TableSize - 1},
                        k \in (-IndexGrid)..IndexGrid, f \in {0, S \div 2} }

IndexProbes ==
    { Probe("reads", [seed |-> s, x |-> cx, y |-> cy]) :
        s \in 0..(RngMod - 1), cx \in IndexCoords, cy \in IndexCoords }

\* initPerlinNoise() from the generator state seed, and the reads of
\* perlinNoise(x, y) in the table it leaves.
ApplyReads ==
    /\ pc = "probe"
    /\ probe.fn = "reads"
    /\ ~probe.done
    /\ probe' = [probe EXCEPT
                    !.done = TRUE,
                    !.out = [ p |-> initPerlinNoise(probe.arg.seed),
                              reads |-> PerlinReads(initPerlinNoise(probe.arg.seed),
                                                    CellIndex(probe.arg.x),
                                                    CellIndex(probe.arg.y),
                                                    CellIndex(probe.arg.x) + 1) ]]
    /\ UNCHANGED << pc, caller, scene, p, rng, framebuffer, allocs, x, y, stack, ret, last,
                    invocations, rough, writes, oob, lastFrame, awaiting, passes, texture,
                    texSrc, redisplay >>
\* The decimal exponents of the directions the Ray probes take: where the
\* squares vanish, the fixed-point range, and where the squares overflow.
RayExponents == {-24, -23, -1, 0, 1, 18, 19, 20}

\* Directions m * 10^e with components 0, 1, 3 and -4.
RayProbes ==
    { Probe("ray", Scaled(<<a, b, c>>, e)) : a \in {0, 1, 3, -4}, b \in {0, 1, 3, -4},
                                             c \in {0, 1, 3, -4}, e \in RayExponents }

\* Ray(o, d) is constructed; out is the direction it stores.
ApplyRay ==
    /\ pc = "probe"
    /\ probe.fn = "ray"
    /\ ~probe.done
    /\ probe' = [probe EXCEPT !.done = TRUE, !.out = RayDirectionScaled(probe.arg)]
    /\ UNCHANGED << pc, caller, scene, p, rng, framebuffer, allocs, x, y, stack, ret, last,
                    invocations, rough, writes, oob, lastFrame, awaiting, passes, texture,
                    texSrc, redisplay >>

\* How many times the hashes of the gradient probes go round the sixteen
\* values of the low four bits, from -16 on.
GradRounds == 3

\* Hashes below 0, in the table's range 0..255 at both of its ends and
\* above it, with offsets on both sides of 0.
GradProbes ==
    { Probe("grad", [hash |-> h, x |-> gx, y |-> gy]) :
        h \in ((-16)..(16 * (GradRounds - 1) - 1)) \cup (240..271),
        gx \in {-700, 0, 300}, gy \in {-S, 0, 450} }

\* grad(hash, x, y) on its own.
ApplyGrad ==
    /\ pc = "probe"
    /\ probe.fn = "grad"
    /\ ~probe.done
    /\ probe' = [probe EXCEPT !.done = TRUE,
                              !.out = grad(probe.arg.hash, probe.arg.x, probe.arg.y)]
    /\ UNCHANGED << pc, caller, scene, p, rng, framebuffer, allocs, x, y, stack, ret, last,
                    invocations, rough, writes, oob, lastFrame, awaiting, passes, texture,
                    texSrc, redisplay >>

\* A function of the program is about to be applied to one argument.
ProbeInit ==
    /\ pc = "probe"
    /\ rng = 0
    /\ Constructed
    /\ \/ probe \in SphereProbes
       \/ probe \in BoxProbes
       \/ probe \in BoxRangeProbes
       \/ probe \in NearestProbes
       \/ probe \in FresnelProbes
       \/ probe \in PerlinProbes
       \/ probe \in GammaProbes
       \/ probe \in PlaneProbes
       \/ probe \in ShadowProbes
       \/ probe \in TraceProbes
       \/ probe \in OverrideProbes
       \/ probe \in IndexProbes
       \/ probe \in RayProbes
       \/ probe \in InsideProbes
       \/ probe \in GradProbes

ProbeNext ==
    \/ ApplySphere
    \/ ApplyBox
    \/ ApplyNearest
    \/ ApplyFresnel
    \/ ApplyPerlin
    \/ ApplyGamma
    \/ ApplyPlane
    \/ ApplyShadow
    \/ ApplyTrace
    \/ ApplyOverride
    \/ ApplyReads
    \/ ApplyRay
    \/ ApplyGrad
    \/ TraceCall
    \/ ReflectSample
    \/ TraceReturn

\* The functions of the program, each applied on its own.
ProbeSpec == ProbeInit /\ [][ProbeNext]_vars

\* --------------------------------------------------------------- claims

\* C1: every call of trace that render() leads to has a depth in 0..6: the
\* outermost call has depth 0, every other call one more than its caller, and
\* no call is entered with depth 7 or more.
DepthWithinCap ==
    /\ \A k \in DOMAIN stack : stack[k].depth \in 0..6
    /\ \A k \in DOMAIN stack :
          IF k = Len(stack) THEN stack[k].depth = 0
          ELSE stack[k].depth = stack[k + 1].depth + 1 /\ stack[k + 1].depth < 6
    /\ last.depth \in 0..6

\* C1, the case: a call of trace at the deepest level, six callers below it.
DepthSixReached == stack # <<>> /\ Head(stack).depth = 6 /\ Len(stack) = 7

\* C2: every pass of render() that has started returns, and no call of trace
\* makes more than 16 recursive calls from its reflection loop.
RenderTerminates ==
    /\ [](\A k \in DOMAIN stack : stack[k].samples <= 16 /\ stack[k].i <= stack[k].samples)
    /\ ((pc = "render") ~> (pc = "loop"))

\* C2, the case: the pass the space key started has returned, after a call
\* of trace that ran all 16 samples of its reflection loop.
SecondPassReturned == pc = "loop" /\ caller = "keyboard" /\ passes = 2

\* C3: one pass of render() writes every byte of the framebuffer exactly
\* once, pixel by pixel at the offsets (y * WIDTH + x) * 3 + {0, 1, 2}, never
\* outside the buffer, and the buffer is the one init() allocated.
FramebufferWrittenOnce ==
    /\ ~oob
    /\ allocs <= 1
    /\ passes >= 1 =>
          /\ allocs = 1
          /\ DOMAIN framebuffer = 0..(WIDTH * HEIGHT * 3 - 1)
          /\ \A k \in 0..(WIDTH * HEIGHT * 3 - 1) :
                writes[k] = IF k < (y * WIDTH + x) * 3 THEN 1 ELSE 0
    /\ pc = "loop" =>
          \A k \in 0..(WIDTH * HEIGHT * 3 - 1) : writes[k] = 1 /\ framebuffer[k] \in 0..255

\* C3, the case: a second pass has overwritten the whole framebuffer.
SecondPassWroteAll ==
    /\ pc = "loop"
    /\ passes = 2
    /\ \A k \in DOMAIN writes : writes[k] = 1

\* C4: display() never reads the framebuffer while a pass of render() is
\* running nor before the first pass has returned: what it uploads is the
\* buffer exactly as one completed pass left it.
DisplayReadsWholeFrame ==
    texSrc.read =>
        /\ ~texSrc.busy
        /\ texSrc.whole
        /\ \A k \in DOMAIN texture : texture[k] \in 0..255

\* C4, the case: display() has run after the pass the space key started.
DisplayedSecondPass == texSrc.read /\ texSrc.pass = 2 /\ texture = lastFrame /\ ~redisplay

\* C5: when a bounded plane is the nearest hit, every field of the material
\* trace shades with is that plane's own: the values its block assigns, and
\* the values of a default material for the fields it does not assign; none
\* comes from a sphere or box the ray meets farther away.
PlaneHitOwnMaterial ==
    (probe.fn = "nearest" /\ probe.done /\ probe.out.hasHit
        /\ probe.out.prim[1] \notin {"sphere", "box"}) =>
        \E k \in DOMAIN Planes :
            /\ Planes[k].name = probe.out.prim[1]
            /\ probe.out.hitNormal = Planes[k].normal
            /\ probe.out.hitMat = PlaneMaterial(Planes[k], probe.out.hitPoint, DefaultMaterial)

\* C6: Sphere::intersect reports a hit iff the discriminant is not negative
\* and the larger root exceeds 0.001; the distance is the smaller root when
\* that exceeds 0.001 and the larger root otherwise.  The ray from (0, 0, 5)
\* along (0, 0, -1) hits the unit sphere at t = 4 with the normal (0, 0, 1).
SphereIntersectSelectsRoot ==
    (probe.fn = "sphere" /\ probe.done) =>
        LET q == SphereQuadratic(probe.arg.sphere, probe.arg.ray)
            smaller == Min2(q.near, q.far)
            larger == Max2(q.near, q.far)
            r == probe.out.r
        IN  /\ r.hit <=> (q.discriminant >= 0 /\ larger > EPS)
            /\ r.hit => r.t = IF smaller > EPS THEN smaller ELSE larger
            /\ probe.arg.ray = Ray(Vec(0, 0, 5 * S), Vec(0, 0, -S)) =>
                  /\ r.hit
                  /\ r.t = 4 * S
                  /\ probe.out.h.hitNormal = Vec(0, 0, S)

\* C6, the case: the example ray has been intersected with the unit sphere.
SphereExampleHit ==
    /\ probe.fn = "sphere" /\ probe.done
    /\ probe.arg.ray = Ray(Vec(0, 0, 5 * S), Vec(0, 0, -S))
    /\ probe.out.r.hit
    /\ probe.out.h.prim = <<"sphere", 1>>

\* The point where the ray of a box probe enters the box lies on one face
\* and farther than 0.001 from the planes of the four faces next to it.
EntersFaceInterior ==
    LET e == PointAt(probe.arg.ray, probe.arg.t)
        b == probe.arg.box
    IN  Cardinality({ i \in 1..3 : Abs(e[i] - b.min[i]) <= EPS \/ Abs(e[i] - b.max[i]) <= EPS }) = 1

\* C7: a ray that starts outside a box and enters it inside one face gets
\* hit = true, the entry distance, and the outward unit normal of that face;
\* the direction from the centroid is not used for such a point.
BoxFaceNormalReturned ==
    (probe.fn = "box" /\ probe.done /\ EntersFaceInterior) =>
        /\ probe.out.hit
        /\ probe.out.t = probe.arg.t
        /\ probe.out.normal = probe.arg.face
        /\ ~probe.out.fallback

\* C8: a call of trace whose nearest hit is neither refractive nor reflective
\* (kr = 0) and lies in shadow returns exactly 0.5 * ka * color.
ShadowedHitReturnsHalfAmbient ==
    (ret.ok /\ ret.leaf /\ last.h.hasHit
        /\ ~last.h.hitMat.isRefractive /\ last.h.hitMat.kr = 0
        /\ Occluded(scene, ShadowRay(scene, last.h), lightDist(scene, last.h))) =>
        ret.val = << FMul(FMul(last.h.hitMat.color[1], last.h.hitMat.ka), S \div 2),
                     FMul(FMul(last.h.hitMat.color[2], last.h.hitMat.ka), S \div 2),
                     FMul(FMul(last.h.hitMat.color[3], last.h.hitMat.ka), S \div 2) >>

\* C8, the case: a call of trace has returned the colour of a shadowed point
\* of a surface that neither refracts nor reflects.
ShadowedHitReturned ==
    /\ ret.ok /\ ret.leaf /\ last.h.hasHit
    /\ ~last.h.hitMat.isRefractive /\ last.h.hitMat.kr = 0
    /\ last.inShadow
    /\ ret.val # Zero3

\* C9: a call of trace whose nearest hit is refractive, at any depth 0..6,
\* takes the refractive branch: it runs neither the local illumination nor
\* the reflection pass for that hit.
RefractiveHitNeverShaded ==
    (last.depth \in 0..6 /\ last.h.hasHit /\ last.h.hitMat.isRefractive) =>
        last.branch \in {"refract", "tir"}

\* C10: for cosI in (0, 1] and eta > 1 the Fresnel value lies in [0, 1], and
\* the weights the blend gives the refracted and the reflected colour sum to
\* exactly 1.
FresnelWeightsConserved ==
    (probe.fn = "fresnel" /\ probe.done
        /\ probe.arg.cosI > 0 /\ probe.arg.cosI <= S /\ probe.arg.eta > S) =>
        /\ probe.out.fresnel >= 0
        /\ probe.out.fresnel <= S
        /\ \A i \in 1..3 : probe.out.refracted[i] + probe.out.reflected[i] = S

\* C10, the case: the Fresnel value of a grazing ray (cosI = 0.001) on glass
\* (eta = 1.5) has been computed.
FresnelGrazingComputed ==
    /\ probe.fn = "fresnel" /\ probe.done
    /\ probe.arg.cosI = EPS /\ probe.arg.eta = 1500
    /\ probe.out.fresnel > 900

\* C11: perlinNoise has no seam: the hash read for a lattice corner is the
\* same in each of the four cells that share the corner, across the wrap of
\* the cell index from 255 to 0 too, and on a cell edge the noise the cell on
\* one side reaches equals the noise the cell on the other side computes.
PerlinNoSeam ==
    (probe.fn = "perlin" /\ probe.done) =>
        /\ \A i \in 1..4 : probe.out.hashes[i] = probe.out.hashes[1]
        /\ probe.out.left = probe.out.right
        /\ probe.out.below = probe.out.above

\* C11, the case: the noise on the cell edges at the wrap of both cell
\* indices has been computed from both sides, and it is not zero there.
PerlinWrapEdgeComputed ==
    /\ probe.fn = "perlin" /\ probe.done
    /\ probe.arg.X = 0 /\ probe.arg.Y = 0
    /\ probe.out.left # 0 /\ probe.out.below # 0

\* C12: the output stage of render() maps every channel value to a byte in
\* 0..255, keeps a value of [0, 1] inside [0, 1] after the gamma correction,
\* and never maps a larger channel value to a smaller result.
OutputStageBoundedMonotone ==
    (probe.fn = "gamma" /\ probe.done) =>
        /\ probe.out.byte \in 0..255
        /\ (probe.arg.c >= 0 /\ probe.arg.c <= S) =>
              (probe.out.g >= 0 /\ probe.out.g <= S)
        /\ le(probe.arg.c, probe.arg.next) =>
              (probe.out.g <= probe.out.gNext /\ probe.out.byte <= probe.out.byteNext)

\* C12, the case: the channel value 0.5 has gone through the output stage
\* and came out as a byte near 255 * 0.5 ^ 0.454 = 186.
HalfChannelConverted ==
    /\ probe.fn = "gamma" /\ probe.done
    /\ probe.arg.c = S \div 2
    /\ probe.out.byte \in 180..192

\* C13: once init() has returned, no step of render(), display() or
\* keyboard() changes the scene or the noise table p; a step inside render()
\* changes, of the program's data, only the framebuffer and the generator.
SceneImmutableAfterInit ==
    [][ /\ allocs = 1 => (scene' = scene /\ p' = p)
        /\ (pc = "render" /\ allocs = 1) => (allocs' = allocs /\ texture' = texture)
      ]_vars

\* C13, the case: a second pass has traced rays to the wood box and returned,
\* and the scene is the one init() built.
SceneIntactAfterSecondPass ==
    /\ pc = "loop" /\ passes = 2
    /\ scene = InitScene
    /\ p # [k \in 0..(2 * TableSize - 1) |-> 0]
    /\ \E k \in DOMAIN framebuffer : framebuffer[k] # 0

\* The primitives of the scene sc in the order trace evaluates them, each
\* with the distance its own test yields for the ray and whether the test
\* accepts it (for a plane: inside its rectangle too).
HitCandidates(sc, ray) ==
    [ i \in 1..Len(sc.spheres) |->
        [ prim |-> <<"sphere", i>>,
          ok |-> SphereIntersect(sc.spheres[i], ray).hit,
          t |-> SphereIntersect(sc.spheres[i], ray).t ] ]
    \o [ j \in 1..Len(sc.boxes) |->
        [ prim |-> <<"box", j>>,
          ok |-> BoxIntersect(sc.boxes[j], ray).hit,
          t |-> BoxIntersect(sc.boxes[j], ray).t ] ]
    \o [ k \in 1..Len(Planes) |->
        [ prim |-> <<Planes[k].name, 0>>,
          ok |-> /\ planeIntersect(ray, Planes[k].point, Planes[k].normal).hit
                 /\ InsideRect(Planes[k],
                        PointAt(ray, planeIntersect(ray, Planes[k].point, Planes[k].normal).t)),
          t |-> planeIntersect(ray, Planes[k].point, Planes[k].normal).t ] ]

\* C14: trace keeps the primitive with the smallest accepted distance, and of
\* several primitives with that same distance the one that comes first in the
\* order spheres, boxes, floor, left wall, right wall, back wall, ceiling.
FirstOfEqualHitsKept ==
    (probe.fn = "nearest" /\ probe.done) =>
        LET c == HitCandidates(probe.arg.scene, probe.arg.ray)
            ok == { i \in DOMAIN c : c[i].ok /\ lt(c[i].t, NoHit.tMin) }
        IN  /\ probe.out.hasHit <=> ok # {}
            /\ ok # {} =>
                  \E i \in ok :
                      /\ \A j \in ok : c[i].t <= c[j].t /\ (c[j].t = c[i].t => i <= j)
                      /\ probe.out.prim = c[i].prim
                      /\ probe.out.tMin = c[i].t

\* C14, the case: a ray has met two spheres at the same distance, nothing
\* nearer, and the first sphere of the list is the recorded hit.
EqualSpheresFirstKept ==
    /\ probe.fn = "nearest" /\ probe.done
    /\ probe.out.prim = <<"sphere", 1>>
    /\ SphereIntersect(probe.arg.scene.spheres[2], probe.arg.ray).hit
    /\ SphereIntersect(probe.arg.scene.spheres[2], probe.arg.ray).t = probe.out.tMin

\* C15: Box::intersect reports a hit only for an entry distance t in
\* (0.001, 1000]: an entry distance t <= 0.001, exactly 0.001 too, or
\* t > 1000 is a miss.
BoxHitOnlyInsideRange ==
    (probe.fn = "boxrange" /\ probe.done) =>
        /\ probe.out.hit => (probe.out.t > EPS /\ probe.out.t <= 1000 * S)
        /\ (probe.arg.t <= EPS \/ probe.arg.t > 1000 * S) => ~probe.out.hit

\* The four conditions of a plane block for the plane pl, the ray and the hit
\* record h: the ray is not nearly parallel to the plane, the distance t is
\* beyond the guard and smaller than the nearest so far, and the hit point
\* lies in the rectangle of the plane.
PlaneAccepts(pl, ray, h, t) ==
    /\ Abs(dot(ray.direction, pl.normal)) > EPS
    /\ t > EPS
    /\ t < h.tMin
    /\ InsideRect(pl, PointAt(ray, t))

\* C16: a plane block records its plane as the hit only if
\* |direction . normal| > 0.001, t > 0.001, t is below the nearest distance so
\* far and the hit point lies in the plane's rectangle; when one of these
\* fails, the hit record stays as it was.
PlaneRecordedOnlyWhenAccepted ==
    (probe.fn = "plane" /\ probe.done) =>
        LET pl == Planes[probe.arg.k]
            ray == probe.arg.ray
            h == probe.arg.h
            t == FDiv(dot(sub(pl.point, ray.origin), pl.normal), dot(pl.normal, ray.direction))
        IN  IF PlaneAccepts(pl, ray, h, t)
            THEN /\ probe.out.tMin = t
                 /\ probe.out.hitPoint = PointAt(ray, t)
                 /\ probe.out.hitNormal = pl.normal
                 /\ probe.out.hasHit /\ ~probe.out.isBox
                 /\ probe.out.prim = <<pl.name, 0>>
            ELSE probe.out = h

\* C16, the case: the floor block has run for a ray that is nearly parallel
\* to the floor and has left a hit record of the sphere loop as it was.
NearParallelRayLeftRecord ==
    /\ probe.fn = "plane" /\ probe.done
    /\ probe.arg.k = 1
    /\ probe.arg.h = PriorHit
    /\ probe.arg.ray = Ray(Vec(0, 1, 0), Vec(S, -1, 0))
    /\ probe.out = PriorHit

\* C17: the local-illumination step finds the point in shadow exactly when
\* some sphere or some box, whatever its material, is met by the shadow ray
\* at a distance below lightDist - 0.001; the bounded planes take no part.
ShadowIffSphereOrBoxBeforeLight ==
    (probe.fn = "shadow" /\ probe.done) =>
        LET sc == probe.arg.scene
            hp == probe.arg.h.hitPoint
            toLight == sub(sc.lightPos, hp)
            shadowRay == Ray(add(hp, scale(probe.arg.h.hitNormal, EPS)), normalize(toLight))
            reach == length(toLight) - EPS
            blockers ==
                { i \in 1..Len(sc.spheres) :
                    /\ SphereIntersect(sc.spheres[i], shadowRay).hit
                    /\ SphereIntersect(sc.spheres[i], shadowRay).t < reach }
                \cup
                { Len(sc.spheres) + j : j \in
                    { k \in 1..Len(sc.boxes) :
                        /\ BoxIntersect(sc.boxes[k], shadowRay).hit
                        /\ BoxIntersect(sc.boxes[k], shadowRay).t < reach } }
        IN  /\ probe.out.inShadow <=> blockers # {}
            /\ (sc.spheres = <<>> /\ sc.boxes = <<>>) => ~probe.out.inShadow

\* C17, the case: the only primitive of the scene is a glass sphere between
\* the floor point and the light, and the point is found in shadow.
GlassSphereShadows ==
    /\ probe.fn = "shadow" /\ probe.done
    /\ probe.arg.scene.boxes = <<>>
    /\ Len(probe.arg.scene.spheres) = 1
    /\ probe.arg.scene.spheres[1].mat.isRefractive
    /\ probe.arg.h.hitPoint = Vec(0, 0, 0)
    /\ probe.out.inShadow

\* The normal of the refractive branch of the call f: the hit normal, negated
\* when the ray leaves the medium.
FlippedNormal(f) ==
    IF -dot(f.ray.direction, f.h.hitNormal) > 0 THEN f.h.hitNormal ELSE scale(f.h.hitNormal, -S)

\* C18: in the refractive branch, for a ray entering and for a ray exiting,
\* the reflected ray starts at hitPoint + 0.001 * n and the refracted ray at
\* hitPoint - 0.001 * n, for the normal n that has been flipped on exit.
RefractionRaysOffsetAlongFlippedNormal ==
    \A k \in 2..Len(stack) :
        LET f == stack[k]
            start == stack[k - 1].ray.origin
            towards == add(f.h.hitPoint, scale(FlippedNormal(f), EPS))
            away == sub(f.h.hitPoint, scale(FlippedNormal(f), EPS))
        IN  /\ f.st = "refract" => (start = away /\ f.pending.origin = towards)
            /\ f.st = "refract2" => start = towards
            /\ f.st = "tir" => start = towards

\* The refractive branch of the call f as the source states it: the cosine
\* made non-negative, eta inverted and the normal negated when the ray is
\* exiting, and sinT2 by Snell's law.
BranchCosI(f) == Abs(dot(f.ray.direction, f.h.hitNormal))

BranchExiting(f) == -dot(f.ray.direction, f.h.hitNormal) <= 0

BranchEta(f) == IF BranchExiting(f) THEN FDiv(S, f.h.hitMat.eta) ELSE f.h.hitMat.eta

BranchSinT2(f) ==
    FMul(FMul(BranchEta(f), BranchEta(f)), S - FMul(BranchCosI(f), BranchCosI(f)))

\* C19: a call that runs the refractive branch makes exactly one recursive
\* call, of the mirror-reflected ray, when sinT2 >= 1, and exactly two, of the
\* refracted ray and then of the reflected ray, when sinT2 < 1; each is made at
\* depth + 1, with cosI made non-negative and, for an exiting ray, eta
\* inverted and the normal negated.  The directions are those of the rays
\* built, which the Ray constructor normalizes once more.
RefractiveBranchCalls ==
    \A k \in 1..Len(stack) :
        LET f == stack[k]
            d == f.ray.direction
            into ==
                RefractDir(d, FlippedNormal(f), BranchEta(f), BranchCosI(f),
                           FSqrt(S - BranchSinT2(f)))
            mirrored(n) == normalize(Reflect(d, n))
        IN  /\ (f.st # "call" /\ f.h.hitMat.isRefractive /\ f.depth < 6)
                  => f.st \in {"refract", "refract2", "tir"}
            /\ f.st = "tir" =>
                  /\ BranchSinT2(f) >= S
                  /\ f.calls = 1
                  /\ k > 1 => /\ stack[k - 1].depth = f.depth + 1
                              /\ stack[k - 1].ray.direction = mirrored(FlippedNormal(f))
            /\ f.st = "refract" =>
                  /\ BranchSinT2(f) < S
                  /\ f.calls = 1
                  /\ f.fresnel = Fresnel(BranchEta(f), BranchCosI(f))
                  /\ k > 1 => /\ stack[k - 1].depth = f.depth + 1
                              /\ stack[k - 1].ray.direction = normalize(into)
            /\ f.st = "refract2" =>
                  /\ BranchSinT2(f) < S
                  /\ f.calls = 2
                  /\ k > 1 => /\ stack[k - 1].depth = f.depth + 1
                              /\ stack[k - 1].ray.direction = mirrored(f.h.hitNormal)

\* C19, the case: the one recursive call of a total internal reflection has
\* returned to its caller.
TotalReflectionCallReturned ==
    /\ stack # <<>>
    /\ Head(stack).st = "tir"
    /\ Head(stack).calls = 1
    /\ ret.ok

\* C20: a call whose hit is not refractive makes exactly 16 recursive calls
\* in the reflection pass when kr > 0, depth < 6 and roughness > 0.001,
\* exactly 1 when kr > 0, depth < 6 and roughness <= 0.001, and none when
\* kr <= 0 or depth >= 6; no call makes more than 16 recursive calls, and one
\* primary ray leads to at most 16^d calls at depth d.
ReflectionPassCalls ==
    [][ /\ \A k \in 1..Len(stack) : stack[k].calls <= 16
        /\ \A d \in DOMAIN invocations : invocations[d] <= 16 ^ d
        /\ (stack # <<>> /\ stack' = Tail(stack)) =>
              LET f == Head(stack)
                  m == IF f.st = "call" THEN last'.h.hitMat ELSE f.h.hitMat
                  hit == IF f.st = "call" THEN last'.h.hasHit ELSE f.h.hasHit
              IN  (hit /\ ~m.isRefractive) =>
                      f.calls = IF m.kr > 0 /\ f.depth < 6
                                THEN (IF m.roughness > EPS THEN 16 ELSE 1)
                                ELSE 0
      ]_vars

\* C20, the case: a call that hit the rough gold sphere has made its sixteen
\* recursive calls, and the last of them has returned.
SixteenSamplesTaken ==
    /\ stack # <<>>
    /\ Head(stack).st = "gloss"
    /\ Head(stack).h.hitMat.roughness > EPS
    /\ Head(stack).calls = 16
    /\ ret.ok

\* C21: a call with a non-refractive hit, kr > 0 and depth < 6 returns
\* local * (1 - kr) + R * kr, where R is the average of the sampled radiance,
\* multiplied component-wise by the material colour for a metal and taken as
\* it is otherwise; with kr = 1 the local illumination has no weight.
ReflectionBlendReturned ==
    [][ (stack # <<>> /\ Head(stack).st = "gloss" /\ stack' = Tail(stack)) =>
            LET f == Head(stack)
                m == f.h.hitMat
                average == scale(add(f.acc, ret.val), FDiv(S, f.samples * S))
                R == IF m.isMetallic THEN hadamard(average, m.color) ELSE average
            IN  /\ ~m.isRefractive /\ m.kr > 0 /\ f.depth < 6
                /\ f.finalColor = Shade(scene, f.h).localColor
                /\ ret'.ok
                /\ ret'.val = add(scale(f.finalColor, S - m.kr), scale(R, m.kr))
                /\ m.kr = S => ret'.val = R
      ]_vars

\* C21, the case: the primary ray has hit the rough metal, its sixteen samples
\* have been averaged and tinted, and the blend has been returned to render().
MetalBlendReturned ==
    /\ pc = "render"
    /\ stack = <<>>
    /\ ret.ok /\ ~ret.leaf
    /\ invocations[1] = 16
    /\ last.depth > 0
    /\ ret.val # Zero3

\* C22: the wood-grain colour is applied exactly when the nearest accepted
\* hit is a box: a sphere or a plane nearer than a box keeps its own colour,
\* and a box nearer than everything else gets the wood colour.
WoodColourIffBoxNearest ==
    (probe.fn = "override" /\ probe.done) =>
        LET sc == probe.arg.scene
            c == HitCandidates(sc, probe.arg.ray)
            ok == { i \in DOMAIN c : c[i].ok /\ lt(c[i].t, NoHit.tMin) }
            first == { i \in ok : \A j \in ok : c[i].t <= c[j].t /\ (c[j].t = c[i].t => i <= j) }
            out == probe.out
            wood == getWoodTextureColor(initPerlinNoise(rng), out.hitPoint, out.hitNormal)
        IN  /\ out.isBox <=> \E i \in first : c[i].prim[1] = "box"
            /\ \A i \in first :
                  /\ out.prim = c[i].prim
                  /\ c[i].prim[1] = "box" => out.hitMat.color = wood
                  /\ c[i].prim[1] = "sphere" =>
                        out.hitMat.color = sc.spheres[c[i].prim[2]].mat.color
                  /\ c[i].prim[1] \notin {"box", "sphere"} =>
                        out.hitMat.color =
                            PlaneMaterial(Planes[i - Len(sc.spheres) - Len(sc.boxes)],
                                          out.hitPoint, DefaultMaterial).color

\* C22, the case: a ray has met the wood box and then the ceiling in front of
\* it, and the hit has the colour of the ceiling.
CeilingBeforeBoxKeepsColour ==
    /\ probe.fn = "override" /\ probe.done
    /\ BoxIntersect(probe.arg.scene.boxes[1], probe.arg.ray).hit
    /\ probe.out.prim = <<"ceiling", 0>>
    /\ ~probe.out.isBox
    /\ probe.out.hitMat.color = Vec(850, 850, 850)

\* C23: after initPerlinNoise(), p[0..255] is a permutation of 0..255 and
\* p[i + 256] = p[i] for every i in 0..255; and for every (x, y), negative
\* coordinates included, each index perlinNoise reads p at (X, X + 1, A,
\* A + 1, B, B + 1) lies in 0..511.
PermutationAndReadsInTable ==
    (probe.fn = "reads" /\ probe.done) =>
        /\ DOMAIN probe.out.p = 0..511
        /\ { probe.out.p[i] : i \in 0..255 } = 0..255
        /\ \A i \in 0..255 : probe.out.p[i + 256] = probe.out.p[i]
        /\ \A k \in 1..6 : probe.out.reads[k] \in 0..511

\* C23, the case: perlinNoise has been applied to a point with two negative
\* coordinates, and it has read the table in its upper half.
NegativeCoordinatesRead ==
    /\ probe.fn = "reads" /\ probe.done
    /\ probe.arg.x < 0 /\ probe.arg.y < 0
    /\ \E k \in 1..6 : probe.out.reads[k] > 255

\* C24: normalize() of the zero vector is the zero vector, so a Ray built
\* with a zero direction stores a zero direction; a Ray built with any
\* non-zero direction stores a direction of length 1, within the tolerance
\* of the arithmetic.
RayDirectionZeroOrUnit ==
    (probe.fn = "ray" /\ probe.done) =>
        IF probe.arg.m = Zero3
        THEN probe.out.m = Zero3
        ELSE /\ probe.out.e = -3
             /\ Abs(length(probe.out.m) - S) <= 1

\* C25, as stated: whenever display() runs after passes that space keypresses
\* started, the texture it uploads is the frame of each of these passes.
EveryKeyPassDisplayed ==
    [][(awaiting # <<>> /\ awaiting' = <<>>) =>
          \A i \in DOMAIN awaiting : texture' = awaiting[i]]_vars

\* C25: a space keypress starts one pass of render(), which writes every byte
\* of the framebuffer once and then requests a redisplay; the next display()
\* uploads the frame of the latest pass completed, which is the frame of that
\* keypress unless another space keypress was handled before the display;
\* no other step of the event loop changes the framebuffer, the scene, the
\* noise table or the generator; ESC ends the process from the event loop
\* without a pass, and nothing runs after it.
KeyPassThenLatestFrameDisplayed ==
    [][/\ (pc = "loop" /\ pc' = "render") =>
              /\ caller' = "keyboard" /\ passes' = passes + 1
              /\ x' = 0 /\ y' = 0
              /\ \A k \in DOMAIN writes : writes'[k] = 0
              /\ UNCHANGED << framebuffer, scene, p, rng, redisplay >>
       /\ (pc = "render" /\ pc' = "loop" /\ caller = "keyboard") =>
              /\ redisplay'
              /\ \A k \in DOMAIN writes : writes[k] = 1
              /\ \A k \in DOMAIN framebuffer : framebuffer[k] \in 0..255
              /\ lastFrame' = framebuffer
              /\ UNCHANGED << framebuffer, passes >>
       /\ (awaiting # <<>> /\ awaiting' = <<>>) =>
              /\ redisplay /\ ~redisplay'
              /\ texture' = awaiting[Len(awaiting)]
              /\ texture' = lastFrame
              /\ texSrc'.pass = passes
       /\ (pc = "loop" /\ pc' # "render") =>
              UNCHANGED << framebuffer, scene, p, rng, passes, stack, x, y >>
       /\ pc' = "exited" => pc = "loop"
       /\ pc # "exited"]_vars

\* C25, the case: two space keypresses were handled before display() ran,
\* their passes left different frames, and display() has uploaded the frame
\* of the second.
LatestOfTwoKeyPassesDisplayed ==
    /\ texSrc.read /\ Len(texSrc.pending) = 2
    /\ texSrc.pending[1] # texSrc.pending[2]
    /\ texture = texSrc.pending[2]
    /\ texture = lastFrame
    /\ ~redisplay
    /\ pc = "loop"

\* C26: the generator is advanced only by the shuffle of initPerlinNoise()
\* and by a sample of the reflection pass on a hit with kr > 0, depth < 6
\* and roughness > 0.001 on a material that is not refractive, by three draws
\* each time; and a pixel whose trace tree holds no such hit gets, in a
\* second or later pass, the bytes the pass before wrote, whatever state the
\* generator is in.
GeneratorDrawsOnlyForRoughHits ==
    [][/\ rng' # rng =>
              \/ pc = "start" /\ pc' = "render" /\ rng' = RngStep(rng)
              \/ /\ stack # <<>> /\ Head(stack).st = "gloss"
                 /\ Len(stack') = Len(stack) + 1
                 /\ RoughReflective(Head(stack).h)
                 /\ Head(stack).depth < MaxDepth
                 /\ rough
                 /\ rng' = RngStep(RngStep(RngStep(rng)))
       /\ (stack # <<>> /\ Head(stack).st = "gloss" /\ Len(stack') = Len(stack) + 1
              /\ RoughReflective(Head(stack).h)) =>
              rng' = RngStep(RngStep(RngStep(rng)))
       /\ (pc = "render" /\ stack = <<>> /\ ret.ok /\ passes >= 2 /\ ~rough) =>
              \A k \in PixelIndex(x, y)..(PixelIndex(x, y) + 2) :
                 framebuffer'[k] = lastFrame[k]]_vars

\* C26, the case: in a second pass, which the generator began in another
\* state than the first, a pixel with a rough reflective hit has got other
\* bytes than in the pass before, and a pixel with none has been written.
SmoothPixelRepeatedAfterRoughChanged ==
    /\ pc = "render" /\ passes >= 2 /\ stack = <<>> /\ ~ret.ok
    /\ \E k \in DOMAIN framebuffer : writes[k] = 1 /\ framebuffer[k] # lastFrame[k]
    /\ ~rough /\ x > 0
    /\ writes[PixelIndex(x - 1, y)] = 1
    /\ \A k \in PixelIndex(x - 1, y)..(PixelIndex(x - 1, y) + 2) :
          framebuffer[k] = lastFrame[k]

\* C27: a call of trace at depth 6 makes no recursive call, whatever the
\* material of its hit: it returns the background on a miss and the local
\* illumination of the hit as it is, for a hit with kr > 0 too; and the
\* return `depth > 6` is taken only by a call that was entered from outside
\* with a depth above 6, which render() never does: it calls trace at depth
\* 0, and below such a call no call has a depth above 6.
DepthSixCallIsLeaf ==
    [][(stack # <<>> /\ Head(stack).st = "call" /\ ~ret.ok) =>
          LET f == Head(stack)
              outer == stack[Len(stack)]
          IN  /\ f.depth = MaxDepth =>
                    /\ stack' = Tail(stack)
                    /\ ret'.ok /\ ret'.leaf
                    /\ last'.branch \in {"miss", "local"}
                    /\ invocations'[MaxDepth + 1] = invocations[MaxDepth + 1]
                    /\ ~last'.h.hasHit => ret'.val = scene.bgColor
                    /\ last'.h.hasHit => ret'.val = Shade(scene, last'.h).localColor
              /\ outer.depth <= MaxDepth =>
                    /\ f.depth <= MaxDepth
                    /\ last'.branch # "cap"
                    /\ invocations'[MaxDepth + 1] = 0
              /\ pc = "render" => outer.depth = 0
              /\ last'.branch = "cap" <=> f.depth > MaxDepth]_vars

\* C27, the case: a call at depth 6 has hit a reflective material whose
\* local illumination is not black, and has returned it unscaled.
DepthSixMirrorReturnedLocal ==
    /\ last.depth = MaxDepth /\ last.branch = "local"
    /\ last.h.hitMat.kr > 0 /\ last.h.hitMat.kr < S
    /\ ret.ok /\ ret.leaf
    /\ ret.val = last.localColor
    /\ ret.val # scale(last.localColor, S - last.h.hitMat.kr)
    /\ invocations[MaxDepth] = 1 /\ invocations[MaxDepth + 1] = 0

\* C28: Box::intersect reports a miss for every ray whose origin lies
\* strictly inside the box: on every axis the entry distance of the slab is
\* negative, so the entry distance of the box is, and the range test rejects
\* it; the exit distance, which is positive, is never taken as the hit.
BoxMissedFromInside ==
    (probe.fn = "inside" /\ probe.done) =>
        LET b == probe.arg.box
            o == probe.arg.ray.origin
            d == probe.arg.ray.direction
        IN  (\A i \in 1..3 : b.min[i] < o[i] /\ o[i] < b.max[i]) =>
               /\ ~probe.out.hit
               /\ probe.out = BoxMiss
               /\ \A i \in 1..3 :
                     /\ lt(Slab(b.min[i], b.max[i], o[i], d[i])[1], 0)
                     /\ gt(Slab(b.min[i], b.max[i], o[i], d[i])[2], 0)

\* C28, the case: a ray from 0.001 inside a corner of the box, along a
\* diagonal towards the opposite faces, has been tested: its three slabs
\* overlap, the box lies ahead of it on all of its way out, and it is missed.
DiagonalFromInsideMissed ==
    /\ probe.fn = "inside" /\ probe.done
    /\ probe.arg.ray.origin = Vec(-999, 1, -999)
    /\ \A i \in 1..3 : probe.arg.ray.direction[i] > 500
    /\ \A i \in 1..3 :
          Slab(probe.arg.box.min[i], probe.arg.box.max[i],
               probe.arg.ray.origin[i], probe.arg.ray.direction[i])[2] >= S
    /\ ~probe.out.hit

\* C29: grad(hash, x, y) depends on hash only through its low four bits: for
\* the values 0..7 of these bits it is x + y, -x + y, x - y, -x - y, x, -x,
\* y, -y, and for the values 8..15 it is 0, for every x and y.
GradByLowNibble ==
    (probe.fn = "grad" /\ probe.done) =>
        LET gx == probe.arg.x
            gy == probe.arg.y
            nibble == CHOOSE n \in 0..15 : \E q \in -2..16 : probe.arg.hash = 16 * q + n
            table == << gx + gy, -gx + gy, gx - gy, -gx - gy, gx, -gx, gy, -gy >>
        IN  /\ nibble \in 0..7 => probe.out = table[nibble + 1]
            /\ nibble \in 8..15 => probe.out = 0
            /\ probe.out = grad(nibble, gx, gy)

\* C29, the case: grad has been applied to a hash above 15 whose low four
\* bits are 3, and to offsets that are not zero, and it is -x - y.
GradOfHighHashTaken ==
    /\ probe.fn = "grad" /\ probe.done
    /\ probe.arg.hash = 243
    /\ probe.arg.x = 300 /\ probe.arg.y = 450
    /\ probe.out = -750

=============================================================================
